---- MODULE Spec2Model ----
(***************************************************************************)
(* A model of pathseq's numeric range algebra: ArithmeticSequence,         *)
(* DecimalRange and FileNumSequence (src/src/pathseq).                     *)
(*                                                                         *)
(* Numbers.  A file number is an int or a decimal.Decimal.  The model      *)
(* writes a number as an integer count of units: a unit is 1 for class     *)
(* "int" and 1/Unit for class "dec", so the decimal k stands for k/Unit    *)
(* and is a whole number exactly when Unit divides k.  All arithmetic the  *)
(* code does on start, end, stop and step (+, -, divmod, <, ==) is exact   *)
(* on such counts.                                                         *)
(***************************************************************************)
EXTENDS Integers, Sequences, FiniteSets, TLC

VARIABLES
    pc,     \* where the caller is: "start", "constructed", "raised",
            \* "iterating", "exhausted", "queried"
    call,   \* the constructor call that was made, with its arguments
    obj,    \* the object the call returned, or the exception it raised
    it,     \* the state of the iterator over obj
    out,    \* the numbers the iterator has yielded so far, in order
    res     \* the result of the last query made on obj

vars == <<pc, call, obj, it, out, res>>

(***************************************************************************)
(* Bounds of the model.                                                    *)
(***************************************************************************)
MaxNum == 3        \* numbers are drawn from -1 .. MaxNum (units)
MaxStep == 3       \* steps are drawn from -MaxStep .. MaxStep (units)
Unit == 2          \* a decimal unit is 1/Unit
MaxLen == 3        \* longest list of single numbers given to a constructor

Nums == -1 .. MaxNum
Steps == -MaxStep .. MaxStep
Classes == {"int", "dec"}

(***************************************************************************)
(* Helpers on sequences.                                                   *)
(***************************************************************************)
Last(s) == s[Len(s)]

Front(s) == SubSeq(s, 1, Len(s) - 1)

RECURSIVE Flatten(_)
Flatten(ss) ==
    IF ss = <<>> THEN <<>> ELSE Head(ss) \o Flatten(Tail(ss))

Range(s) == {s[i] : i \in 1 .. Len(s)}

(***************************************************************************)
(* Numbers of a class.                                                     *)
(***************************************************************************)
\* start.__class__(1): the number one, in units.
One(cls) == IF cls = "int" THEN 1 ELSE Unit

\* d % 1 == 0: the number is whole.
IsWhole(cls, n) == cls = "int" \/ n % Unit = 0

Raised(e) == [exc |-> e]

IsOk(o) == o.exc = "none"

(***************************************************************************)
(* The two range primitives an ArithmeticSequence delegates to: the        *)
(* builtin range (class int) and DecimalRange (class Decimal).  A range is *)
(* the record of its start, stop and step.                                 *)
(***************************************************************************)
\* DecimalRange.__init__: start and stop are finite in the model; a zero
\* step is not a normal number.
DecimalRange(start, stop, step) ==
    IF step = 0
    THEN Raised("ValueError")
    ELSE [exc |-> "none", type |-> "DecimalRange", cls |-> "dec",
          start |-> start, stop |-> stop, step |-> step]

\* The builtin range(start, stop, step): a zero step is a ValueError.
PyRange(start, stop, step) ==
    IF step = 0
    THEN Raised("ValueError")
    ELSE [exc |-> "none", type |-> "range", cls |-> "int",
          start |-> start, stop |-> stop, step |-> step]

\* len(range(start, stop, step)) of the builtin.
PyRangeLen(r) ==
    IF r.step > 0 /\ r.start < r.stop
    THEN (r.stop - r.start - 1) \div r.step + 1
    ELSE IF r.step < 0 /\ r.start > r.stop
    THEN (r.start - r.stop - 1) \div (-r.step) + 1
    ELSE 0

\* A __len__ that takes floor(n_minus_one + 1) whether or not n_minus_one
\* is whole, and so counts stop when the steps reach it.
DecimalRangeLenMutant(r) ==
    IF r.step > 0 /\ r.start < r.stop
    THEN (r.stop - r.start) \div r.step + 1
    ELSE IF r.step < 0 /\ r.start > r.stop
    THEN (r.start - r.stop) \div (-r.step) + 1
    ELSE 0

\* DecimalRange.__len__: n_minus_one = (stop - start) / step; when it is a
\* whole number (as_integer_ratio()[1] == 1) it is the length, otherwise
\* the length is floor(n_minus_one + 1).
DecimalRangeLen(r) ==
    IF r.step > 0 /\ r.start < r.stop
    THEN IF (r.stop - r.start) % r.step = 0
         THEN (r.stop - r.start) \div r.step
         ELSE (r.stop - r.start) \div r.step + 1
    ELSE IF r.step < 0 /\ r.start > r.stop
    THEN IF (r.start - r.stop) % (-r.step) = 0
         THEN (r.start - r.stop) \div (-r.step)
         ELSE (r.start - r.stop) \div (-r.step) + 1
    ELSE 0

\* The loop condition of DecimalRange.__iter__ (and of the builtin range's
\* iterator): current is yielded while it has not reached stop.
HasCurrent(r, current) ==
    IF r.step > 0 THEN current < r.stop ELSE current > r.stop

(***************************************************************************)
(* The values a decimal.Decimal argument of DecimalRange can have.  A      *)
(* Decimal is its sign, its coefficient and its exponent: exp is "F" for   *)
(* an infinity, "n" for a quiet NaN, "N" for a signalling NaN, "tiny" for  *)
(* a finite number below the context's Emin (subnormal when not zero) and  *)
(* "units" for any other finite number, whose coefficient counts units.    *)
(***************************************************************************)
Dec(sign, int, exp) == [sign |-> sign, int |-> int, exp |-> exp]

DecimalValues ==
    {Dec(sign, int, exp) : sign \in {0, 1}, int \in {0, 1, MaxNum},
                           exp \in {"units", "tiny"}}
    \cup {Dec(sign, 0, exp) : sign \in {0, 1}, exp \in {"F", "n", "N"}}

\* Decimal.is_finite(): the number is not special.
IsFinite(d) == d.exp \notin {"F", "n", "N"}

\* An is_normal that only asks for a finite number other than zero.
IsNormalMutant(d) == IsFinite(d) /\ d.int # 0

\* Decimal.is_normal(): False for a special number and for zero, otherwise
\* Emin <= adjusted().
IsNormal(d) == IsFinite(d) /\ d.int # 0 /\ d.exp # "tiny"

\* DecimalRange.__init__ on any three Decimals: the object keeps the
\* arguments as _start, _stop and _step.
DecimalRangeInit(start, stop, step) ==
    IF ~(IsFinite(start) /\ IsFinite(stop))
    THEN Raised("ValueError")
    ELSE IF ~IsNormal(step)
    THEN Raised("ValueError")
    ELSE [exc |-> "none", type |-> "DecimalRangeOfDecimals",
          _start |-> start, _stop |-> stop, _step |-> step]

\* The properties start, stop and step of a DecimalRange.
DecimalRangeProperties(r) ==
    [op |-> "properties", start |-> r._start, stop |-> r._stop,
     step |-> r._step]

(***************************************************************************)
(* ArithmeticSequence.                                                     *)
(***************************************************************************)
\* ArithmeticSequence.__init__(start, end, step) on numbers of class cls.
\* divmod by a zero step raises ZeroDivisionError for ints and
\* decimal.InvalidOperation for Decimals; the range primitives raise
\* ValueError for a zero step.
ArithmeticSequence(cls, start0, end0, step0) ==
    LET neg == step0 < 0
        start == IF neg THEN end0 ELSE start0
        end1 == IF neg THEN start0 ELSE end0
        step == IF neg THEN -step0 ELSE step0
    IN  IF start < end1 /\ step = 0
        THEN Raised(IF cls = "int" THEN "ZeroDivisionError"
                                   ELSE "InvalidOperation")
        ELSE
          LET remainder == IF start < end1 THEN (end1 - start) % step ELSE 0
              stop == IF start < end1
                      THEN IF remainder # 0
                           THEN end1 + remainder
                           ELSE end1 + step
                      ELSE IF start = end1 THEN end1 + step ELSE end1
              end == IF start < end1 /\ remainder # 0
                     THEN end1 - remainder
                     ELSE end1
              rng == IF cls = "int"
                     THEN PyRange(start, stop, step)
                     ELSE DecimalRange(start, stop, step)
          IN  IF ~IsOk(rng)
              THEN rng
              ELSE [exc |-> "none", type |-> "ArithmeticSequence",
                    cls |-> cls, start |-> start, stop |-> stop,
                    step |-> step, end |-> end]

\* ArithmeticSequence(start): end defaults to start, step to one.
ArithmeticSequence1(cls, start) ==
    ArithmeticSequence(cls, start, start, One(cls))

\* ArithmeticSequence(start, end): step defaults to one.
ArithmeticSequence2(cls, start, end) ==
    ArithmeticSequence(cls, start, end, One(cls))

\* ArithmeticSequence.__len__: len(self._range).
ASLen(a) ==
    IF a.cls = "int" THEN PyRangeLen(a) ELSE DecimalRangeLen(a)

\* len() of any of the three range objects.
LenOf(o) ==
    IF o.type = "DecimalRange" THEN DecimalRangeLen(o)
    ELSE IF o.type = "range" THEN PyRangeLen(o)
    ELSE ASLen(o)

\* list(a): what iterating the object's range yields, the loop of
\* DecimalRange.__iter__ unrolled from `current`.
RECURSIVE IterFrom(_, _)
IterFrom(r, current) ==
    IF HasCurrent(r, current)
    THEN <<current>> \o IterFrom(r, current + r.step)
    ELSE <<>>

Elements(r) == IterFrom(r, r.start)

\* ArithmeticSequence.__eq__.
ASEq(a, b) ==
    /\ a.cls = b.cls
    /\ a.start = b.start
    /\ a.end = b.end
    /\ a.step = b.step

\* math.gcd on non-negative ints.
RECURSIVE Gcd(_, _)
Gcd(a, b) == IF b = 0 THEN a ELSE Gcd(b, a % b)

\* int(d) of a decimal d: truncation towards zero, a count of whole numbers.
IntOf(cls, n) ==
    IF cls = "int" THEN n
    ELSE IF n >= 0 THEN n \div Unit ELSE -((-n) \div Unit)

\* ArithmeticSequence._quick_isdisjoint(self = a, other = b): "True",
\* "False", or the exception that escapes.  When both steps are whole the
\* gcd test returns False if it fails and falls through to the final
\* `return False` if it passes.  Otherwise the exponents of the two steps
\* are compared: a step that is not whole has a negative exponent, so when
\* neither is whole scale_factor = 10 ** (negative int) is a float and
\* `d1 * scale_factor` multiplies a Decimal by a float, a TypeError; when
\* one of them is whole scale_factor is 10 ** 0 = 1.
QuickIsDisjoint(a, b) ==
    LET cls == a.cls
        a1 == a.start
        b1 == b.start
        d1 == a.step
        d2 == b.step
        difference == b1 - a1
    IN  IF IsWhole(cls, d1) /\ IsWhole(cls, d2)
        THEN LET gcd == Gcd(IntOf(cls, d1), IntOf(cls, d2))
             IN  IF gcd = 0 THEN "False"
                 ELSE IF difference % (gcd * One(cls)) # 0 THEN "False"
                 ELSE "False"
        ELSE IF ~IsWhole(cls, d1) /\ ~IsWhole(cls, d2)
        THEN "TypeError"
        ELSE LET d1_scaled == IntOf(cls, d1)
                 d2_scaled == IntOf(cls, d2)
                 difference_scaled == IntOf(cls, difference)
                 gcd_scaled == Gcd(d1_scaled, d2_scaled)
             IN  IF gcd_scaled = 0 THEN "False"
                 ELSE IF difference_scaled % gcd_scaled # 0 THEN "False"
                 ELSE LET common_term ==
                              a1 + (difference_scaled \div gcd_scaled)
                                   * d1_scaled * One(cls)
                      IN  IF common_term <= a.end /\ common_term <= b.end
                          THEN "True"
                          ELSE "False"

\* ArithmeticSequence.isdisjoint(other) for another ArithmeticSequence.
IsDisjoint(a, b) == QuickIsDisjoint(a, b)

(***************************************************************************)
(* A Decimal key given to DecimalRange.__contains__ is a pair: n, a count  *)
(* of units like every other number, plus a residue t in {-1, 0, 1}: the   *)
(* key is n/Unit + t * eps, where eps is a positive amount more than 28    *)
(* decimal digits below one unit (Decimal('1E-40'), say).  Comparisons of  *)
(* Decimals are exact.  The results of Decimal arithmetic are rounded to   *)
(* the precision of the context, 28 significant digits: key - start keeps  *)
(* the residue only when the units cancel (n = start), and otherwise       *)
(* rounds it away.                                                         *)
(***************************************************************************)
Residues == {-1, 0, 1}

Key(n, t) == [n |-> n, t |-> t]

\* key < m and key <= m for a key and a number m, exactly.
KeyLt(key, m) == key.n < m \/ (key.n = m /\ key.t < 0)

KeyLe(key, m) == key.n < m \/ (key.n = m /\ key.t <= 0)

\* DecimalRange.__contains__(key) for a key of type Decimal.
DecimalRangeContains(r, key) ==
    LET inside == IF r.step > 0
                  THEN ~KeyLt(key, r.start) /\ KeyLt(key, r.stop)
                  ELSE ~KeyLe(key, r.stop) /\ KeyLe(key, r.start)
    IN  IF ~inside
        THEN FALSE
        ELSE \* n_minus_one = (key - self._start) / self._step
             \* n_minus_one.as_integer_ratio()[1] == 1
             IF key.n = r.start
             THEN key.t = 0
             ELSE IF r.step > 0
                  THEN (key.n - r.start) % r.step = 0
                  ELSE (r.start - key.n) % (-r.step) = 0

(***************************************************************************)
(* FileNumSequence: a tuple of consolidated ArithmeticSequences.           *)
(***************************************************************************)
\* _seqs_from_nums: the loop over the numbers after the first.  seqs are
\* the (start, end, step) triples closed so far; hasStep is `step is not
\* None`.
RECURSIVE SeqsLoop(_, _, _, _, _, _, _)
SeqsLoop(cls, numbers, seqs, start, previous, hasStep, step) ==
    IF numbers = <<>>
    THEN IF hasStep THEN Append(seqs, <<start, previous, step>>) ELSE seqs
    ELSE
      LET current == Head(numbers)
          rest == Tail(numbers)
          current_step == current - previous
          step1 == IF hasStep THEN step ELSE current_step
      IN  IF current = previous
          THEN SeqsLoop(cls, rest, seqs, start, previous, hasStep, step)
          ELSE IF current_step = One(cls) \/ step1 = current_step
          THEN SeqsLoop(cls, rest, seqs, start, current, TRUE, step1)
          ELSE SeqsLoop(cls, rest, Append(seqs, <<start, previous, step1>>),
                        current, current, FALSE, 0)

\* _seqs_from_nums(numbers): the ArithmeticSequences of the triples.
SeqsFromNums(cls, numbers) ==
    IF numbers = <<>>
    THEN <<>>
    ELSE LET seqs == SeqsLoop(cls, Tail(numbers), <<>>, Head(numbers),
                              Head(numbers), FALSE, 0)
         IN  [i \in 1 .. Len(seqs) |->
                  ArithmeticSequence(cls, seqs[i][1], seqs[i][2], seqs[i][3])]

\* (r for r in ranges if len(r))
RECURSIVE Filtered(_)
Filtered(ranges) ==
    IF ranges = <<>> THEN <<>>
    ELSE IF ASLen(Head(ranges)) # 0
    THEN <<Head(ranges)>> \o Filtered(Tail(ranges))
    ELSE Filtered(Tail(ranges))

\* new_ranges[-1] = r
SetLast(new_ranges, r) == [new_ranges EXCEPT ![Len(new_ranges)] = r]

\* A join of two singles that keeps the step of the first.
JoinSinglesMutant(range_a, range_b, difference) ==
    ArithmeticSequence(range_a.cls, range_a.start, range_b.start,
                       range_a.step)

\* The two singles of the branch `len(range_a) == 1 and len(range_b) == 1`
\* joined into one range whose step is their difference.
JoinSingles(range_a, range_b, difference) ==
    ArithmeticSequence(range_a.cls, range_a.start, range_b.start, difference)

\* _consolidate_ranges: the loop `for range_b in filtered`.  The result is
\* the tuple of ranges, or the exception a constructor raised.
RECURSIVE ConsolidateLoop(_, _)
ConsolidateLoop(new_ranges, filtered) ==
    IF filtered = <<>>
    THEN [exc |-> "none", type |-> "FileNumSequence", ranges |-> new_ranges]
    ELSE
      LET range_b == Head(filtered)
          rest == Tail(filtered)
          range_a == Last(new_ranges)
          cls == range_a.cls
          difference == range_b.start - range_a.end
      IN  IF difference = range_a.step
          THEN IF range_a.step = range_b.step
               THEN ConsolidateLoop(
                        SetLast(new_ranges,
                                ArithmeticSequence(cls, range_a.start,
                                                   range_b.end, range_a.step)),
                        rest)
               ELSE LET a2 == ArithmeticSequence(cls, range_a.start,
                                                 range_b.start, range_a.step)
                        b2 == ArithmeticSequence(cls,
                                                 range_b.start + range_b.step,
                                                 range_b.end, range_b.step)
                    IN  IF ASLen(b2) = 0
                        THEN ConsolidateLoop(SetLast(new_ranges, a2), rest)
                        ELSE ConsolidateLoop(
                                 Append(SetLast(new_ranges, a2), b2), rest)
          ELSE IF ASLen(range_a) = 1 /\ ASLen(range_b) = 1
          THEN LET joined == JoinSingles(range_a, range_b, difference)
               IN  IF ~IsOk(joined)
                   THEN joined
                   ELSE ConsolidateLoop(SetLast(new_ranges, joined), rest)
          ELSE ConsolidateLoop(Append(new_ranges, range_b), rest)

\* _consolidate_ranges(ranges)
ConsolidateRanges(ranges) ==
    LET filtered == Filtered(ranges)
    IN  IF filtered = <<>>
        THEN [exc |-> "none", type |-> "FileNumSequence", ranges |-> <<>>]
        ELSE ConsolidateLoop(<<Head(filtered)>>, Tail(filtered))

\* FileNumSequence(ranges)
FileNumSequence(ranges) == ConsolidateRanges(ranges)

\* FileNumSequence.from_file_nums(file_nums)
FromFileNums(cls, file_nums) == FileNumSequence(SeqsFromNums(cls, file_nums))

\* FileNumSequence.__eq__: the range tuples are equal, range by range.
FileNumSequenceEq(x, y) ==
    /\ Len(x.ranges) = Len(y.ranges)
    /\ \A i \in 1 .. Len(x.ranges) : ASEq(x.ranges[i], y.ranges[i])

\* FileNumSequence.__hash__: hash((type(self), self._ranges)), a function
\* of what ArithmeticSequence.__hash__ reads: start, end and step.
FileNumSequenceHash(x) ==
    [i \in 1 .. Len(x.ranges) |->
         <<x.ranges[i].start, x.ranges[i].end, x.ranges[i].step>>]

\* list(x): FileNumSequenceIterator run to the end.  A range that yields
\* nothing when it is entered ends the iteration (the StopIteration of the
\* inner next() escapes __next__).
RECURSIVE IterRanges(_)
IterRanges(ranges) ==
    IF ranges = <<>> THEN <<>>
    ELSE IF Elements(Head(ranges)) = <<>> THEN <<>>
    ELSE Elements(Head(ranges)) \o IterRanges(Tail(ranges))

(***************************************************************************)
(* Range strings.  The text of a number is the pair of its value n, in     *)
(* units of 1/Unit whatever its class, and dot0: whether a whole number is *)
(* written with a trailing ".0".  The grammar of parse_file_num_seq admits *)
(* one text for a number that is not whole (no trailing zeros) and two for *)
(* a whole number, "k" and "k.0".  A range string is the sequence of its   *)
(* comma-separated ranges, each the tuple of its one, two or three number  *)
(* texts (start, end, step): the args tuples of _RangeReducer.range.       *)
(***************************************************************************)
NumText(n, dot0) == [n |-> n, dot0 |-> dot0]

\* "." in arg
HasDot(text) == text.dot0 \/ text.n % Unit # 0

\* int(arg) or Decimal(arg), in the units of the class.
NumOf(cls, text) == IF cls = "int" THEN text.n \div Unit ELSE text.n

\* str(number): an int prints its digits; the Decimals an
\* ArithmeticSequence holds went through remove_exponent, so a whole one
\* prints without ".0" and any other without trailing zeros.
StrOfNum(cls, v) == NumText(IF cls = "int" THEN v * Unit ELSE v, FALSE)

\* _RangeReducer.ranges: every range is built from Decimals when any
\* argument of any range has a ".", and from ints otherwise.
SeqClass(seq) ==
    IF \E i \in 1 .. Len(seq) : \E j \in 1 .. Len(seq[i]) : HasDot(seq[i][j])
    THEN "dec"
    ELSE "int"

\* ArithmeticSequence(*args) for the one, two or three texts of a range.
RangeOfArgs(cls, args) ==
    IF Len(args) = 1
    THEN ArithmeticSequence1(cls, NumOf(cls, args[1]))
    ELSE IF Len(args) = 2
    THEN ArithmeticSequence2(cls, NumOf(cls, args[1]), NumOf(cls, args[2]))
    ELSE ArithmeticSequence(cls, NumOf(cls, args[1]), NumOf(cls, args[2]),
                            NumOf(cls, args[3]))

\* parse_file_num_seq(seq): the list of ranges, or the first exception a
\* constructor raises.
ParseFileNumSeq(seq) ==
    LET cls == SeqClass(seq)
        built == [i \in 1 .. Len(seq) |-> RangeOfArgs(cls, seq[i])]
        bad == {i \in 1 .. Len(seq) : ~IsOk(built[i])}
    IN  IF bad = {}
        THEN [exc |-> "none", ranges |-> built]
        ELSE built[CHOOSE i \in bad : \A j \in bad : i <= j]

\* FileNumSequence.from_str(seq)
FromStr(seq) ==
    LET parsed == ParseFileNumSeq(seq)
    IN  IF IsOk(parsed) THEN FileNumSequence(parsed.ranges) ELSE parsed

\* A __str__ without the case of a range of two numbers one apart.
ASStrMutant(a) ==
    LET cls == a.cls
    IN  IF ASLen(a) = 1
        THEN << <<StrOfNum(cls, a.start)>> >>
        ELSE IF a.step # One(cls)
        THEN << <<StrOfNum(cls, a.start), StrOfNum(cls, a.end),
                  StrOfNum(cls, a.step)>> >>
        ELSE << <<StrOfNum(cls, a.start), StrOfNum(cls, a.end)>> >>

\* ArithmeticSequence.__str__, as the comma-separated ranges it writes:
\* one range, or for a range of two numbers one apart the two numbers.
ASStr(a) ==
    LET cls == a.cls
    IN  IF ASLen(a) = 1
        THEN << <<StrOfNum(cls, a.start)>> >>
        ELSE IF a.step # One(cls)
        THEN << <<StrOfNum(cls, a.start), StrOfNum(cls, a.end),
                  StrOfNum(cls, a.step)>> >>
        ELSE IF ASLen(a) = 2
        THEN [i \in 1 .. 2 |-> <<StrOfNum(cls, Elements(a)[i])>>]
        ELSE << <<StrOfNum(cls, a.start), StrOfNum(cls, a.end)>> >>

\* FileNumSequence.__str__: ",".join(str(rng) for rng in self._ranges)
FileNumSequenceStr(x) ==
    Flatten([i \in 1 .. Len(x.ranges) |-> ASStr(x.ranges[i])])

(***************************************************************************)
(* The state machine of the range objects: a caller constructs an          *)
(* ArithmeticSequence or a DecimalRange, then either iterates it to        *)
(* exhaustion or makes one query on it.                                    *)
(***************************************************************************)
NoCall == [fn |-> "none"]
NoObj == [exc |-> "unset"]
NoIter == [ri |-> 0, current |-> 0, live |-> FALSE]
NoRes == [op |-> "none"]

Init ==
    /\ pc = "start"
    /\ call = NoCall
    /\ obj = NoObj
    /\ it = NoIter
    /\ out = <<>>
    /\ res = NoRes

\* ArithmeticSequence(start, end, step) on numbers of either class.
NewArithmeticSequence ==
    /\ pc = "start"
    /\ \E cls \in Classes, start \in Nums, end \in Nums, step \in Steps :
            /\ call' = [fn |-> "ArithmeticSequence", cls |-> cls,
                        start |-> start, end |-> end, step |-> step]
            /\ obj' = ArithmeticSequence(cls, start, end, step)
            /\ pc' = IF IsOk(obj') THEN "constructed" ELSE "raised"
            /\ UNCHANGED <<it, out, res>>

\* DecimalRange(start, stop, step)
NewDecimalRange ==
    /\ pc = "start"
    /\ \E start \in Nums, stop \in Nums, step \in Steps :
            /\ call' = [fn |-> "DecimalRange", cls |-> "dec",
                        start |-> start, stop |-> stop, step |-> step]
            /\ obj' = DecimalRange(start, stop, step)
            /\ pc' = IF IsOk(obj') THEN "constructed" ELSE "raised"
            /\ UNCHANGED <<it, out, res>>

\* iter(obj) on a range object: the generator starts at start.
RangeIter ==
    /\ pc = "constructed"
    /\ obj.type \in {"ArithmeticSequence", "DecimalRange"}
    /\ it' = [ri |-> 0, current |-> obj.start, live |-> TRUE]
    /\ pc' = "iterating"
    /\ UNCHANGED <<call, obj, out, res>>

\* next() on the range iterator: yield current and advance by step, or
\* stop.
RangeNext ==
    /\ pc = "iterating"
    /\ obj.type \in {"ArithmeticSequence", "DecimalRange"}
    /\ IF HasCurrent(obj, it.current)
       THEN /\ out' = Append(out, it.current)
            /\ it' = [it EXCEPT !.current = it.current + obj.step]
            /\ pc' = pc
       ELSE /\ it' = [it EXCEPT !.live = FALSE]
            /\ pc' = "exhausted"
            /\ out' = out
    /\ UNCHANGED <<call, obj, res>>

\* len(obj)
RangeLenQuery ==
    /\ pc = "constructed"
    /\ obj.type \in {"ArithmeticSequence", "DecimalRange"}
    /\ res' = [op |-> "len", value |-> LenOf(obj)]
    /\ pc' = "queried"
    /\ UNCHANGED <<call, obj, it, out>>

\* key in obj, for a DecimalRange and a Decimal key
RangeContainsQuery ==
    /\ pc = "constructed"
    /\ obj.type = "DecimalRange"
    /\ \E n \in Nums, t \in Residues :
        /\ res' = [op |-> "contains", key |-> Key(n, t),
                   value |-> DecimalRangeContains(obj, Key(n, t))]
        /\ pc' = "queried"
        /\ UNCHANGED <<call, obj, it, out>>

\* obj.isdisjoint(other) for two ArithmeticSequences of one class
RangeIsDisjointQuery ==
    /\ pc = "constructed"
    /\ obj.type = "ArithmeticSequence"
    /\ \E start \in Nums, end \in Nums, step \in 1 .. MaxStep :
        LET other == ArithmeticSequence(obj.cls, start, end, step)
        IN  /\ res' = [op |-> "isdisjoint", other |-> other,
                       value |-> IsDisjoint(obj, other)]
            /\ pc' = "queried"
            /\ UNCHANGED <<call, obj, it, out>>

\* DecimalRange(start, stop, step) on Decimals of every kind.
NewDecimalRangeOfDecimals ==
    /\ pc = "start"
    /\ \E start \in DecimalValues, stop \in DecimalValues,
          step \in DecimalValues :
            /\ call' = [fn |-> "DecimalRange.__init__", start |-> start,
                        stop |-> stop, step |-> step]
            /\ obj' = DecimalRangeInit(start, stop, step)
            /\ pc' = IF IsOk(obj') THEN "made" ELSE "raised"
            /\ UNCHANGED <<it, out, res>>

\* obj.start, obj.stop, obj.step
RangeProperties ==
    /\ pc = "made"
    /\ res' = DecimalRangeProperties(obj)
    /\ pc' = "queried"
    /\ UNCHANGED <<call, obj, it, out>>

NextRange ==
    \/ NewArithmeticSequence
    \/ NewDecimalRange
    \/ RangeIter
    \/ RangeNext
    \/ RangeLenQuery
    \/ RangeContainsQuery
    \/ RangeIsDisjointQuery
    \/ NewDecimalRangeOfDecimals
    \/ RangeProperties

SpecRange == Init /\ [][NextRange]_vars

(***************************************************************************)
(* Claims about ArithmeticSequence and DecimalRange, under SpecRange.      *)
(***************************************************************************)
\* The progression start, start + step, ... up to and including the last
\* value that is <= end.
Progression(start, end, step) ==
    [k \in 1 .. ((end - start) \div step + 1) |-> start + (k - 1) * step]

\* C1: for start <= end and step > 0, ArithmeticSequence(start, end, step)
\* iterates exactly the values start + k*step that are <= the requested
\* end, and its end property is the last value iterated.
C1_IteratesUpToEnd ==
    (/\ pc = "exhausted"
     /\ call.fn = "ArithmeticSequence"
     /\ call.start <= call.end
     /\ call.step > 0)
    => /\ out = Progression(call.start, call.end, call.step)
       /\ obj.end = Last(out)

\* The numbers two range objects have in common.
Common(a, b) == Range(Elements(a)) \cap Range(Elements(b))

\* C6: A.isdisjoint(B) returns True exactly when no value is an element of
\* both ArithmeticSequences.
C6_IsDisjointIsBruteForce ==
    res.op = "isdisjoint"
    => res.value = (IF Common(obj, res.other) = {} THEN "True" ELSE "False")

\* C7: key in DecimalRange(start, stop, step) is True exactly when
\* key = start + k*step for an integer k with 0 <= k < len(range).
C7_ContainsIsExact ==
    res.op = "contains"
    => res.value =
         (\E k \in 0 .. (DecimalRangeLen(obj) - 1) :
              /\ res.key.n = obj.start + k * obj.step
              /\ res.key.t = 0)

NotANumberOrInfinite(d) == d.exp = "n" \/ d.exp = "N" \/ d.exp = "F"

ZeroOrSubnormal(d) == d.exp \in {"units", "tiny"} /\ (d.int = 0 \/ d.exp = "tiny")

Rejected(c) ==
    \/ NotANumberOrInfinite(c.start)
    \/ NotANumberOrInfinite(c.stop)
    \/ NotANumberOrInfinite(c.step)
    \/ ZeroOrSubnormal(c.step)

\* C19: DecimalRange raises ValueError, and no object is constructed, when
\* start or stop is NaN, sNaN or an infinity or when step is zero (+0 or
\* -0), subnormal, infinite or NaN; for any other arguments construction
\* succeeds and the start, stop and step properties return the given
\* values unchanged.
C19_InitRejectsNonFiniteAndNonNormal ==
    (pc \in {"made", "raised", "queried"} /\ call.fn = "DecimalRange.__init__")
    => IF Rejected(call)
       THEN obj = Raised("ValueError")
       ELSE /\ IsOk(obj)
            /\ res.op = "properties"
               => /\ res.start = call.start
                  /\ res.stop = call.stop
                  /\ res.step = call.step

\* C19's case: a call with a negative zero start, a finite stop and a
\* subnormal step has raised.
C19_Witness ==
    /\ pc = "raised"
    /\ call.fn = "DecimalRange.__init__"
    /\ call.start = Dec(1, 0, "units")
    /\ IsFinite(call.stop)
    /\ call.step = Dec(0, 1, "tiny")

(***************************************************************************)
(* The state machine of FileNumSequence: a caller constructs one with      *)
(* from_str or from_file_nums, then either iterates it to exhaustion or    *)
(* asks for its string.                                                    *)
(***************************************************************************)
\* The texts of the ints and of the Decimals of the model, and of the
\* unsigned numbers a step can be written as.
IntTexts == {NumText(k * Unit, FALSE) : k \in Nums}

IntStepTexts == {NumText(k * Unit, FALSE) : k \in 0 .. MaxStep}

DecTexts ==
    {NumText(k, d) : k \in Nums, d \in BOOLEAN} \ {NumText(k, TRUE) : k \in {j \in Nums : j % Unit # 0}}

DecStepTexts ==
    {NumText(k, d) : k \in 0 .. MaxStep, d \in BOOLEAN} \ {NumText(k, TRUE) : k \in {j \in 0 .. MaxStep : j % Unit # 0}}

\* Every range of one, two or three texts.
ArgsOf(texts, steps) ==
    {<<a>> : a \in texts}
    \cup {<<a, b>> : a \in texts, b \in texts}
    \cup {<<a, b, c>> : a \in texts, b \in texts, c \in steps}

\* The ranges written in ascending order with a step that is not zero.
AscendingArgs ==
    {args \in ArgsOf(IntTexts, IntStepTexts) :
        /\ Len(args) >= 2 => args[1].n <= args[2].n
        /\ Len(args) = 2 => args[1].n < args[2].n
        /\ Len(args) = 3 => args[3].n # 0}

\* The lists of at most MaxLen numbers.
ListsOf(S) == UNION {[1 .. k -> S] : k \in 0 .. MaxLen}

\* The range strings given to from_str: the empty string, every string of
\* one range of either class, the strings of two ascending int ranges and
\* the comma-separated lists of ints.
RangeStrings ==
    {<<>>}
    \cup {<<args>> : args \in ArgsOf(IntTexts, IntStepTexts)}
    \cup {<<args>> : args \in ArgsOf(DecTexts, DecStepTexts)}
    \cup {<<a, b>> : a \in AscendingArgs, b \in AscendingArgs}
    \cup {[i \in 1 .. Len(l) |-> <<l[i]>>] : l \in ListsOf(IntTexts)}

\* FileNumSequence.from_str(seq)
NewFromStr ==
    /\ pc = "start"
    /\ \E seq \in RangeStrings :
            /\ call' = [fn |-> "from_str", seq |-> seq]
            /\ obj' = FromStr(seq)
            /\ pc' = IF IsOk(obj') THEN "constructed" ELSE "raised"
            /\ UNCHANGED <<it, out, res>>

\* FileNumSequence.from_file_nums(file_nums)
NewFromFileNums ==
    /\ pc = "start"
    /\ \E cls \in Classes, file_nums \in ListsOf(Nums) :
            /\ call' = [fn |-> "from_file_nums", cls |-> cls,
                        file_nums |-> file_nums]
            /\ obj' = FromFileNums(cls, file_nums)
            /\ pc' = IF IsOk(obj') THEN "constructed" ELSE "raised"
            /\ UNCHANGED <<it, out, res>>

\* iter(obj): FileNumSequenceIterator.__init__; no range is entered yet.
Iter ==
    /\ pc = "constructed"
    /\ obj.type = "FileNumSequence"
    /\ it' = [ri |-> 0, current |-> 0, live |-> FALSE]
    /\ pc' = "iterating"
    /\ UNCHANGED <<call, obj, out, res>>

\* FileNumSequenceIterator.__next__: the next number of the range being
\* iterated; when it has none, the first number of the next range; when
\* there is no next range, or it yields nothing, StopIteration.
NextNum ==
    /\ pc = "iterating"
    /\ obj.type = "FileNumSequence"
    /\ IF it.live /\ HasCurrent(obj.ranges[it.ri], it.current)
       THEN /\ out' = Append(out, it.current)
            /\ it' = [it EXCEPT
                         !.current = it.current + obj.ranges[it.ri].step]
            /\ pc' = pc
       ELSE IF it.ri < Len(obj.ranges)
       THEN LET range_ == obj.ranges[it.ri + 1]
            IN  IF HasCurrent(range_, range_.start)
                THEN /\ out' = Append(out, range_.start)
                     /\ it' = [ri |-> it.ri + 1,
                               current |-> range_.start + range_.step,
                               live |-> TRUE]
                     /\ pc' = pc
                ELSE /\ out' = out
                     /\ it' = [ri |-> it.ri + 1, current |-> range_.start,
                               live |-> TRUE]
                     /\ pc' = "exhausted"
       ELSE /\ out' = out
            /\ it' = it
            /\ pc' = "exhausted"
    /\ UNCHANGED <<call, obj, res>>

\* str(obj)
Str ==
    /\ pc = "constructed"
    /\ obj.type = "FileNumSequence"
    /\ res' = [op |-> "str", value |-> FileNumSequenceStr(obj)]
    /\ pc' = "queried"
    /\ UNCHANGED <<call, obj, it, out>>

Next ==
    \/ NewFromStr
    \/ NewFromFileNums
    \/ Iter
    \/ NextNum
    \/ Str

Spec == Init /\ [][Next]_vars

(***************************************************************************)
(* Claims about FileNumSequence, under Spec.                               *)
(***************************************************************************)
\* C2: consolidation never changes what is iterated: iterating the
\* FileNumSequence of a parsed range string yields the concatenation of
\* the parsed ranges' elements, and constructing it succeeds.
C2_ConsolidationKeepsIteration ==
    (call.fn = "from_str" /\ IsOk(ParseFileNumSeq(call.seq)))
    => LET ranges == ParseFileNumSeq(call.seq).ranges
       IN  /\ pc # "raised"
           /\ pc = "exhausted"
              => out = Flatten([i \in 1 .. Len(ranges) |->
                                    Elements(ranges[i])])

\* No two neighbours of the list are equal.
NoEqualNeighbours(l) == \A i \in 1 .. (Len(l) - 1) : l[i] # l[i + 1]

\* C3: from_file_nums(nums) of one or more numbers with no two equal
\* neighbours iterates exactly nums.
C3_FromFileNumsKeepsNums ==
    (/\ pc = "exhausted"
     /\ call.fn = "from_file_nums"
     /\ Len(call.file_nums) >= 1
     /\ NoEqualNeighbours(call.file_nums))
    => out = call.file_nums

InNormalForm(args) ==
    /\ \A j \in 1 .. Len(args) : ~args[j].dot0
    /\ Len(args) = 2 => /\ args[2].n - args[1].n >= 2 * Unit
                        /\ (args[2].n - args[1].n) % Unit = 0
    /\ Len(args) = 3 => /\ args[3].n \notin {0, Unit}
                        /\ args[2].n > args[1].n
                        /\ (args[2].n - args[1].n) % args[3].n = 0

OtherStrings == {<<args>> : args \in ArgsOf(IntTexts, IntStepTexts)}

\* C5: two FileNumSequences compare equal exactly when they hold the same
\* file numbers in the same order, and equal ones have equal hashes.
C5_EqIsSameNumbers ==
    (pc = "constructed" /\ call.fn = "from_str" /\ SeqClass(call.seq) = "int")
    => \A seq \in OtherStrings :
           LET other == FromStr(seq)
           IN  IsOk(other)
               => /\ FileNumSequenceEq(obj, other)
                     <=> IterRanges(obj.ranges) = IterRanges(other.ranges)
                  /\ FileNumSequenceEq(obj, other)
                     => FileNumSequenceHash(obj) = FileNumSequenceHash(other)

\* The list is an ascending arithmetic progression of two or more numbers.
IsProgression(l) ==
    /\ Len(l) >= 2
    /\ l[2] > l[1]
    /\ \A i \in 1 .. (Len(l) - 1) : l[i + 1] - l[i] = l[2] - l[1]

\* C9: no two adjacent ranges of a FileNumSequence could be replaced by a
\* single arithmetic progression iterating the same numbers in the same
\* order.
C9_AdjacentRangesNotMergeable ==
    (pc = "constructed" /\ obj.type = "FileNumSequence")
    => \A i \in 1 .. (Len(obj.ranges) - 1) :
           ~IsProgression(Elements(obj.ranges[i])
                          \o Elements(obj.ranges[i + 1]))

\* The range notation of a progression: start-end, or start-endxstep when
\* the step is not one.
RangeNotation(l) ==
    IF l[2] - l[1] = 1
    THEN << <<StrOfNum("int", l[1]), StrOfNum("int", Last(l))>> >>
    ELSE << <<StrOfNum("int", l[1]), StrOfNum("int", Last(l)),
              StrOfNum("int", l[2] - l[1])>> >>

\* The comma-separated list of the numbers.
CommaList(l) == [i \in 1 .. Len(l) |-> <<StrOfNum("int", l[i])>>]

\* C10: for an ascending progression of two or more ints, from_file_nums
\* of its elements, from_str of its range notation and from_str of the
\* comma-separated list of its elements are equal FileNumSequences.
C10_ThreeConstructionsAgree ==
    (/\ pc = "constructed"
     /\ call.fn = "from_file_nums"
     /\ call.cls = "int"
     /\ IsProgression(call.file_nums))
    => LET byRange == FromStr(RangeNotation(call.file_nums))
           byList == FromStr(CommaList(call.file_nums))
       IN  /\ IsOk(byRange)
           /\ IsOk(byList)
           /\ FileNumSequenceEq(obj, byRange)
           /\ FileNumSequenceEq(obj, byList)
           /\ FileNumSequenceEq(byRange, byList)

\* C10's case: from_file_nums was given a progression of three numbers
\* with a step of two that starts below zero.
C10_Witness ==
    /\ pc = "constructed"
    /\ call.fn = "from_file_nums"
    /\ call.cls = "int"
    /\ IsProgression(call.file_nums)
    /\ Len(call.file_nums) = 3
    /\ call.file_nums[1] < 0
    /\ call.file_nums[2] - call.file_nums[1] = 2

(***************************************************************************)
(* Path sequence names.  A name is the sequence of its characters, each a  *)
(* one-character string, so that the regular expressions and the string    *)
(* methods of the parsers act on it as they do on a Python str.            *)
(***************************************************************************)
UDIM == <<"<", "U", "D", "I", "M", ">">>
UVTILE == <<"<", "U", "V", "T", "I", "L", "E", ">">>

DigitChars == <<"0", "1", "2", "3", "4", "5", "6", "7", "8", "9">>

\* \d
IsDigit(c) == c \in Range(DigitChars)

\* seq[i - 1] of the Python string, or "" past its end.
At(s, i) == IF i >= 1 /\ i <= Len(s) THEN s[i] ELSE ""

\* The position after the longest run of characters in set C that starts
\* at position i: the greedy match of a character class followed by +.
RECURSIVE RunEnd(_, _, _)
RunEnd(s, i, C) == IF At(s, i) \in C THEN RunEnd(s, i + 1, C) ELSE i

\* seq.startswith(t, i - 1)
StartsWithAt(s, i, t) ==
    i + Len(t) - 1 <= Len(s) /\ SubSeq(s, i, i + Len(t) - 1) = t

\* seq.startswith(c) and seq.endswith(c) for a character c
StartsWith(s, c) == s # <<>> /\ s[1] = c

EndsWith(s, c) == s # <<>> /\ s[Len(s)] = c

\* \d+(?:\.\d+)? matched at position i: the position after the match, or
\* 0 when there is none.  Each part is greedy, and what follows a number
\* in RANGE_RE never starts with a digit or a ".", so no shorter match is
\* ever taken.
NumEnd(s, i) ==
    LET e == RunEnd(s, i, Range(DigitChars))
        f == RunEnd(s, e + 1, Range(DigitChars))
    IN  IF e = i THEN 0
        ELSE IF At(s, e) = "." /\ f > e + 1 THEN f
        ELSE e

\* -?\d+(?:\.\d+)?
SignedNumEnd(s, i) ==
    IF At(s, i) = "-" THEN NumEnd(s, i + 1) ELSE NumEnd(s, i)

\* RANGE_RE: a file number, optionally "-" and a file number, optionally
\* "x" and a number.
RangeEnd(s, i) ==
    LET Stepped(b, c) == IF At(s, b) = "x" /\ c # 0 THEN c ELSE b
        Ended(a, b) == IF At(s, a) = "-" /\ b # 0
                       THEN Stepped(b, NumEnd(s, b + 1))
                       ELSE a
        Started(a) == IF a = 0 THEN 0 ELSE Ended(a, SignedNumEnd(s, a + 1))
    IN  Started(SignedNumEnd(s, i))

\* RANGE(?:,RANGE)* matched at position i
RECURSIVE RangeListEnd(_, _)
RangeListEnd(s, i) ==
    LET More(r, next) == IF r = 0 THEN 0
                         ELSE IF At(s, r) = "," /\ next # 0 THEN next
                         ELSE r
        First(r) == More(r, IF r = 0 THEN 0 ELSE RangeListEnd(s, r + 1))
    IN  First(RangeEnd(s, i))

\* PAD_FORMAT_RE matched at position i: #+(?:\.#+)? or <UDIM> or <UVTILE>
PadEnd(s, i) ==
    LET e == RunEnd(s, i, {"#"})
        f == RunEnd(s, e + 1, {"#"})
    IN  IF e > i
        THEN IF At(s, e) = "." /\ f > e + 1 THEN f ELSE e
        ELSE IF StartsWithAt(s, i, UDIM) THEN i + Len(UDIM)
        ELSE IF StartsWithAt(s, i, UVTILE) THEN i + Len(UVTILE)
        ELSE 0

\* RANGES_RE matched at position i: an optional range list, then a pad
\* format.  The characters of a range list cannot start a pad format, so
\* the pad format is looked for after the longest range list.
RangesEnd(s, i) ==
    LET Padded(l) == PadEnd(s, IF l = 0 THEN i ELSE l)
    IN  Padded(RangeListEnd(s, i))

\* The start of the leftmost match of RANGES_RE at or after position i, or
\* 0 when there is none.
FirstRanges(s, i) ==
    LET Leftmost(found) == IF found = {} THEN 0
                           ELSE CHOOSE p \in found : \A q \in found : p <= q
    IN  Leftmost({p \in i .. Len(s) : RangesEnd(s, p) # 0})

\* re.split(RANGES_RE, seq), from position i on: the text before each
\* match, then the match (the pattern's one group), and the text after the
\* last match.
RECURSIVE SplitFrom(_, _)
SplitFrom(s, i) ==
    LET Match(p, e) == <<SubSeq(s, i, p - 1), SubSeq(s, p, e - 1)>>
                       \o SplitFrom(s, e)
        Found(p) == IF p = 0
                    THEN <<SubSeq(s, i, Len(s))>>
                    ELSE Match(p, RangesEnd(s, p))
    IN  Found(FirstRanges(s, i))

ReSplit(s) == SplitFrom(s, 1)

(***************************************************************************)
(* Tokens.  A token is its type and its value; the column it records is    *)
(* only used in the text of an error.  An exception is the record of its   *)
(* class name, as for the range objects.                                   *)
(***************************************************************************)
Token(type, value) == [type |-> type, value |-> value]

\* raw_token[:n] and raw_token[n:]
Take(s, n) == SubSeq(s, 1, n)

Drop(s, n) == SubSeq(s, n + 1, Len(s))

\* raw_token.index(".", start), or len(raw_token) when index raises
\* ValueError: the number of characters before the first "." that is at
\* or after the 0-based position start.
IndexOfDot(s, start) ==
    LET dots == {k \in (start + 1) .. Len(s) : s[k] = "."}
    IN  IF dots = {} THEN Len(s)
        ELSE (CHOOSE k \in dots : \A j \in dots : k <= j) - 1

\* The tokens of raw_tokens[0] when text follows the last range: a stem,
\* and the prefix separator it ends with unless it is just ".".
StemTokens(raw_token) ==
    IF raw_token # <<".">> /\ (EndsWith(raw_token, ".") \/ EndsWith(raw_token, "_"))
    THEN <<Token("STEM", Front(raw_token)), Token("PREFIX", <<Last(raw_token)>>)>>
    ELSE <<Token("STEM", raw_token)>>

\* The tokens of raw_tokens[i] for 0 < i < len(raw_tokens) - 1: ranges at
\* the odd places and inter-range strings at the even ones.  k is i + 1.
MiddleTokens(raw_tokens, last) ==
    [k \in 1 .. (last - 1) |->
        Token(IF k % 2 = 1 THEN "RANGE" ELSE "INTER_RANGE", raw_tokens[k + 1])]

\* A process_tokens that takes any text after the last range as suffixes.
ProcessTokensMutant(seq, raw_tokens) ==
    LET n == Len(raw_tokens)
    IN  IF EndsWith(seq, ".") THEN Raised("ParseError")
        ELSE IF raw_tokens[1] = <<>> THEN Raised("ParseError")
        ELSE IF raw_tokens[n] = <<>> THEN Raised("ParseError")
        ELSE IF \E k \in 3 .. (n - 1) :
                    k % 2 = 1 /\ raw_tokens[k] \in {<<>>, <<".">>}
        THEN Raised("ParseError")
        ELSE [exc |-> "none",
              tokens |-> StemTokens(raw_tokens[1])
                         \o MiddleTokens(raw_tokens, n - 1)
                         \o <<Token("SUFFIXES", raw_tokens[n])>>]

\* process_tokens of the strict parser
ProcessTokens(seq, raw_tokens) ==
    LET n == Len(raw_tokens)
    IN  IF EndsWith(seq, ".") THEN Raised("ParseError")
        ELSE IF raw_tokens[1] = <<>> THEN Raised("ParseError")
        ELSE IF raw_tokens[n] = <<>> THEN Raised("ParseError")
        ELSE IF \E k \in 3 .. (n - 1) :
                    k % 2 = 1 /\ raw_tokens[k] \in {<<>>, <<".">>}
        THEN Raised("ParseError")
        ELSE IF ~StartsWith(raw_tokens[n], ".") THEN Raised("ParseError")
        ELSE [exc |-> "none",
              tokens |-> StemTokens(raw_tokens[1])
                         \o MiddleTokens(raw_tokens, n - 1)
                         \o <<Token("SUFFIXES", raw_tokens[n])>>]

\* A _tokenise_seq that hands every split to process_tokens.
TokeniseSeqMutant(seq) == ProcessTokens(seq, ReSplit(seq))

\* _tokenise_seq of the strict parser
TokeniseSeq(seq) ==
    LET Tokens(raw_tokens) == IF Len(raw_tokens) = 1
                              THEN Raised("NotASequenceError")
                              ELSE ProcessTokens(seq, raw_tokens)
    IN  Tokens(ReSplit(seq))

\* The tokens the loose tokeniser makes of raw_tokens[0] when the name
\* ends with a range: the stem up to its first "." (after a leading one),
\* the suffixes from there, and the separator the text ends with.
StemSuffixesTokens(raw_token0) ==
    LET sep == EndsWith(raw_token0, ".") \/ EndsWith(raw_token0, "_")
        raw_token == IF sep THEN Front(raw_token0) ELSE raw_token0
        suffix_i == IndexOfDot(raw_token,
                               IF StartsWith(raw_token, ".") THEN 1 ELSE 0)
    IN  <<Token("STEM", Take(raw_token, suffix_i))>>
        \o (IF Drop(raw_token, suffix_i) # <<>>
            THEN <<Token("SUFFIXES", Drop(raw_token, suffix_i))>>
            ELSE <<>>)
        \o (IF sep THEN <<Token("PREFIX", <<Last(raw_token0)>>)>> ELSE <<>>)

\* suffix_i of the text after the last range
SuffixIndex(raw_token) ==
    IF EndsWith(raw_token, ".") THEN Len(raw_token)
    ELSE IF StartsWith(raw_token, ".") THEN 0
    ELSE IndexOfDot(raw_token, 0)

\* The tokens the loose tokeniser makes of the text after the last range.
LastTokens(raw_token0, starts_with_range) ==
    IF StartsWith(raw_token0, ".") /\ ~EndsWith(raw_token0, ".")
    THEN <<Token("SUFFIXES", raw_token0)>>
    ELSE LET post == starts_with_range /\ StartsWith(raw_token0, "_")
             raw_token == IF post THEN Tail(raw_token0) ELSE raw_token0
             suffix_i == SuffixIndex(raw_token)
         IN  (IF post THEN <<Token("POSTFIX", <<"_">>)>> ELSE <<>>)
             \o (IF Take(raw_token, suffix_i) # <<>>
                 THEN <<Token(IF starts_with_range THEN "STEM" ELSE "POSTFIX",
                              Take(raw_token, suffix_i))>>
                 ELSE <<>>)
             \o (IF Drop(raw_token, suffix_i) # <<>>
                 THEN <<Token("SUFFIXES", Drop(raw_token, suffix_i))>>
                 ELSE <<>>)

\* _tokenise of the loose parser
Tokenise(seq) ==
    LET Checked(tokens) ==
            IF \E k \in 1 .. Len(tokens) : tokens[k].type = "RANGE"
            THEN [exc |-> "none", tokens |-> tokens]
            ELSE Raised("NotASequenceError")
        Rest(first, raw_tokens, n, starts_with_range, ends_with_range) ==
            IF n <= 1 THEN first
            ELSE IF ends_with_range
            THEN first \o MiddleTokens(raw_tokens, n)
            ELSE first \o MiddleTokens(raw_tokens, n - 1)
                 \o LastTokens(raw_tokens[n], starts_with_range)
        First(raw_tokens, n, ends_with_range) ==
            IF n = 0 \/ raw_tokens[1] = <<>> THEN <<>>
            ELSE IF ~ends_with_range THEN StemTokens(raw_tokens[1])
            ELSE StemSuffixesTokens(raw_tokens[1])
        Raw(raw_tokens, starts_with_range, ends_with_range) ==
            Checked(Rest(First(raw_tokens, Len(raw_tokens), ends_with_range),
                         raw_tokens, Len(raw_tokens),
                         starts_with_range, ends_with_range))
        Split(split) ==
            Raw(IF Last(split) = <<>> THEN Front(split) ELSE split,
                split[1] = <<>>, Last(split) = <<>>)
    IN  Split(ReSplit(seq))

(***************************************************************************)
(* The columns of the tokens: for each tokeniser, the column of each token *)
(* of its list, in the order of the list.                                  *)
(***************************************************************************)
\* column when the loop reaches raw_tokens[i] (k is i + 1): the lengths of
\* the raw tokens before it, where raw_tokens[0] counts without the
\* separator that was taken off it (stripped).
RECURSIVE ColumnAt(_, _, _)
ColumnAt(raw_tokens, k, stripped) ==
    IF k = 1 THEN 0
    ELSE IF k = 2 THEN Len(raw_tokens[1]) - (IF stripped THEN 1 ELSE 0)
    ELSE ColumnAt(raw_tokens, k - 1, stripped) + Len(raw_tokens[k - 1])

\* The columns of the tokens of process_tokens
ProcessTokensColumns(raw_tokens) ==
    LET n == Len(raw_tokens)
        stripped == Len(StemTokens(raw_tokens[1])) = 2
    IN  (IF stripped THEN <<0, Len(raw_tokens[1]) - 1>> ELSE <<0>>)
        \o [k \in 1 .. (n - 1) |-> ColumnAt(raw_tokens, k + 1, stripped)]

\* The columns of the tokens of _tokenise
TokeniseColumns(seq) ==
    LET Last1(raw_token0, starts_with_range, column) ==
            IF StartsWith(raw_token0, ".") /\ ~EndsWith(raw_token0, ".")
            THEN <<column>>
            ELSE LET post == starts_with_range /\ StartsWith(raw_token0, "_")
                     raw_token == IF post THEN Tail(raw_token0) ELSE raw_token0
                     column1 == IF post THEN column + 1 ELSE column
                     suffix_i == SuffixIndex(raw_token)
                 IN  (IF post THEN <<column>> ELSE <<>>)
                     \o (IF Take(raw_token, suffix_i) # <<>>
                         THEN <<column1>> ELSE <<>>)
                     \o (IF Drop(raw_token, suffix_i) # <<>>
                         THEN <<column1 + suffix_i>> ELSE <<>>)
        First1(raw_token0, ends_with_range) ==
            LET sep == EndsWith(raw_token0, ".") \/ EndsWith(raw_token0, "_")
                raw_token == IF sep THEN Front(raw_token0) ELSE raw_token0
                suffix_i == IndexOfDot(raw_token,
                                IF StartsWith(raw_token, ".") THEN 1 ELSE 0)
            IN  IF raw_token0 = <<>> THEN <<>>
                ELSE IF ~ends_with_range
                THEN IF Len(StemTokens(raw_token0)) = 2
                     THEN <<0, Len(raw_token0) - 1>> ELSE <<0>>
                ELSE <<0>>
                     \o (IF Drop(raw_token, suffix_i) # <<>>
                         THEN <<suffix_i>> ELSE <<>>)
                     \o (IF sep THEN <<Len(raw_token0) - 1>> ELSE <<>>)
        Raw(raw_tokens, n, starts_with_range, ends_with_range) ==
            LET stripped ==
                    /\ raw_tokens[1] # <<>>
                    /\ IF ends_with_range
                       THEN EndsWith(raw_tokens[1], ".")
                            \/ EndsWith(raw_tokens[1], "_")
                       ELSE Len(StemTokens(raw_tokens[1])) = 2
                Middle(last) ==
                    [k \in 1 .. (last - 1) |->
                        ColumnAt(raw_tokens, k + 1, stripped)]
            IN  IF n = 0 THEN <<>>
                ELSE First1(raw_tokens[1], ends_with_range)
                     \o (IF n <= 1 THEN <<>>
                         ELSE IF ends_with_range THEN Middle(n)
                         ELSE Middle(n - 1)
                              \o Last1(raw_tokens[n], starts_with_range,
                                       ColumnAt(raw_tokens, n, stripped)))
        Split(split) ==
            Raw(IF Last(split) = <<>> THEN Front(split) ELSE split,
                Len(IF Last(split) = <<>> THEN Front(split) ELSE split),
                split[1] = <<>>, Last(split) = <<>>)
    IN  Split(ReSplit(seq))

(***************************************************************************)
(* The range string of a range token, as parse_file_num_seq reads it.      *)
(* The names of the model write whole numbers only, so a number is a run   *)
(* of digits with an optional sign.                                        *)
(***************************************************************************)
\* int(arg) for a run of digits
RECURSIVE IntOfDigits(_)
IntOfDigits(d) ==
    IF d = <<>> THEN 0
    ELSE 10 * IntOfDigits(Front(d))
         + (CHOOSE v \in 0 .. 9 : DigitChars[v + 1] = Last(d))

\* NUM of the grammar, on whole numbers: 0|[1-9][0-9]*
IsNum(d) == d # <<>> /\ (d = <<"0">> \/ d[1] # "0")

\* FILE_NUM: "-"? NUM
IsFileNum(d) == IF StartsWith(d, "-") THEN IsNum(Tail(d)) ELSE IsNum(d)

\* The text of a whole number as an argument of _RangeReducer.range.
TextOfChars(d) ==
    IF StartsWith(d, "-")
    THEN NumText(-(IntOfDigits(Tail(d)) * Unit), FALSE)
    ELSE NumText(IntOfDigits(d) * Unit, FALSE)

\* The characters of the one, two or three numbers of the range that
\* starts at position i and ends before position r.
RangeChars(s, i, r) ==
    LET Stepped(a, b) ==
            IF b = r THEN <<SubSeq(s, i, a - 1), SubSeq(s, a + 1, b - 1)>>
            ELSE <<SubSeq(s, i, a - 1), SubSeq(s, a + 1, b - 1),
                   SubSeq(s, b + 1, r - 1)>>
        Ended(a) == IF a = r THEN <<SubSeq(s, i, a - 1)>>
                    ELSE Stepped(a, SignedNumEnd(s, a + 1))
    IN  Ended(SignedNumEnd(s, i))

\* The ranges of a range list, each the characters of its numbers.
RECURSIVE RangeListChars(_, _)
RangeListChars(s, i) ==
    LET Listed(r) ==
            IF r = 0 THEN <<>>
            ELSE <<RangeChars(s, i, r)>>
                 \o (IF At(s, r) = "," THEN RangeListChars(s, r + 1) ELSE <<>>)
    IN  Listed(RangeEnd(s, i))

\* _PARSER.parse(seq) and _RangeReducer.range: the args tuples of the
\* ranges, or ParseError when a number is not a FILE_NUM or a step is not
\* a NUM of the grammar.
FileNumArgs(seq_str) ==
    LET Args(ranges) ==
            IF \A i \in 1 .. Len(ranges) :
                  /\ \A j \in 1 .. Len(ranges[i]) :
                        IF j = 3 THEN IsNum(ranges[i][j])
                        ELSE IsFileNum(ranges[i][j])
            THEN [exc |-> "none",
                  seq |-> [i \in 1 .. Len(ranges) |->
                              [j \in 1 .. Len(ranges[i]) |->
                                  TextOfChars(ranges[i][j])]]]
            ELSE Raised("ParseError")
    IN  Args(RangeListChars(seq_str, 1))

\* FileNumSequence.from_str(seq_str) on the characters of a range string
FromChars(seq_str) ==
    LET args == FileNumArgs(seq_str)
    IN  IF IsOk(args) THEN FromStr(args.seq) ELSE args

\* _parse_padded_range(token): the pad format is the leftmost match of
\* PAD_FORMAT_RE in the token, and the range string is what precedes it.
ParsePaddedRange(token) ==
    LET l == RangeListEnd(token.value, 1)
        range_len == (IF l = 0 THEN 1 ELSE l) - 1
        Padded(file_nums, pad_format) ==
            IF IsOk(file_nums)
            THEN [exc |-> "none", file_nums |-> file_nums,
                  pad_format |-> pad_format]
            ELSE Raised(file_nums.exc)
    IN  Padded(FromChars(Take(token.value, range_len)),
               Drop(token.value, range_len))

\* The loop of _parse_suffixes over the characters after the first: a "."
\* closes the buffer and starts the next suffix.  The strict parser
\* (check) raises ParseError when the buffer it closes is just ".".
RECURSIVE SuffixLoop(_, _, _, _)
SuffixLoop(chars, buffer, suffixes, check) ==
    IF chars = <<>>
    THEN [exc |-> "none", suffixes |-> Append(suffixes, buffer)]
    ELSE IF Head(chars) = "."
    THEN IF check /\ buffer = <<".">>
         THEN Raised("ParseError")
         ELSE SuffixLoop(Tail(chars), <<".">>, Append(suffixes, buffer), check)
    ELSE SuffixLoop(Tail(chars), Append(buffer, Head(chars)), suffixes, check)

\* A _parse_suffixes that never rejects an empty file extension.
ParseSuffixesMutant(token, check) ==
    IF token.value = <<>>
    THEN [exc |-> "none", suffixes |-> <<>>]
    ELSE SuffixLoop(Tail(token.value), <<Head(token.value)>>, <<>>, FALSE)

\* _parse_suffixes(token)
ParseSuffixes(token, check) ==
    IF token.value = <<>>
    THEN [exc |-> "none", suffixes |-> <<>>]
    ELSE SuffixLoop(Tail(token.value), <<Head(token.value)>>, <<>>, check)

(***************************************************************************)
(* The parsers' state machines.  A machine is the record of its current    *)
(* state and of the attributes its callbacks fill in; exc is the exception *)
(* a validator, a condition or a callback raised, which ends the parse.    *)
(* An event is offered to the transitions of the current state in the      *)
(* order of their declaration: a transition's validators run first and may *)
(* raise, then its cond decides whether it is taken, and when no           *)
(* transition is taken the event raises TransitionNotAllowed.              *)
(***************************************************************************)
Machine ==
    [state |-> "init", range_type |-> "None", stem |-> <<>>, prefix |-> <<>>,
     ranges |-> <<>>, inter_ranges |-> <<>>, postfix |-> <<>>,
     suffixes |-> <<>>, exc |-> "none"]

Fail(m, e) == [m EXCEPT !.exc = e]

\* A transition taken: its target state, the callback run on entering it
\* and the range type the callback sets (the machine's own when it sets
\* none).
To(m, state, enter, range_type) ==
    [exc |-> "none", state |-> state, enter |-> enter,
     range_type |-> IF range_type = "" THEN m.range_type ELSE range_type]

\* validators="expect_..." : the token must have the type
Expect(token, type, then) ==
    IF token.type # type THEN Raised("ParseError") ELSE then

\* on_enter_stem, on_enter_range_later, on_enter_starts_stem
EnterStem(m, state, token) ==
    [m EXCEPT !.state = state, !.stem = token.value]

\* on_enter_in_prefix, on_enter_ends_prefix
EnterPrefix(m, state, token) ==
    [m EXCEPT !.state = state, !.prefix = token.value]

\* on_enter_in_postfix, on_enter_starts_postfix
EnterPostfix(m, state, token) ==
    [m EXCEPT !.state = state, !.postfix = token.value]

\* An on_enter_*_inter_range that records no empty separator.
EnterInterRangeMutant(m, state, token) ==
    [m EXCEPT !.state = state,
              !.inter_ranges = IF token.value = <<>> THEN @
                               ELSE Append(@, token.value)]

\* on_enter_in_inter_range, on_enter_starts_inter_range,
\* on_enter_ends_inter_range
EnterInterRange(m, state, token) ==
    [m EXCEPT !.state = state, !.inter_ranges = Append(@, token.value)]

\* on_enter_range_in_name, on_enter_range_starts_name, on_enter_ends_range:
\* the range type is set (when the callback sets one) before the range is
\* parsed.
EnterRange(m, state, range_type, token) ==
    LET Entered(r) ==
            IF IsOk(r)
            THEN [m EXCEPT !.state = state, !.range_type = range_type,
                           !.ranges = Append(@, r)]
            ELSE [m EXCEPT !.state = state, !.range_type = range_type,
                           !.exc = r.exc]
    IN  Entered(ParsePaddedRange(token))

\* on_enter_in_suffixes, on_enter_starts_suffixes, on_enter_range_ends_name
EnterSuffixes(m, state, range_type, token, check) ==
    LET Entered(s) ==
            IF IsOk(s)
            THEN [m EXCEPT !.state = state, !.range_type = range_type,
                           !.suffixes = s.suffixes]
            ELSE [m EXCEPT !.state = state, !.range_type = range_type,
                           !.exc = s.exc]
    IN  Entered(ParseSuffixes(token, check))

\* The callback of the state a transition enters, or the exception the
\* event raised.
Enter(m, t, token, check) ==
    CASE ~IsOk(t) -> Fail(m, t.exc)
      [] t.enter = "stem" -> EnterStem(m, t.state, token)
      [] t.enter = "prefix" -> EnterPrefix(m, t.state, token)
      [] t.enter = "postfix" -> EnterPostfix(m, t.state, token)
      [] t.enter = "inter_range" -> EnterInterRange(m, t.state, token)
      [] t.enter = "range" -> EnterRange(m, t.state, t.range_type, token)
      [] t.enter = "suffixes" ->
            EnterSuffixes(m, t.state, t.range_type, token, check)

\* The transitions of pump of the strict parser
StrictTransition(m, token) ==
    CASE m.state = "init" ->
            Expect(token, "STEM", To(m, "stem", "stem", ""))
      [] m.state = "stem" ->
            IF token.type = "PREFIX"
            THEN To(m, "in_prefix", "prefix", "")
            ELSE Expect(token, "RANGE", To(m, "range_in_name", "range", ""))
      [] m.state = "in_prefix" ->
            Expect(token, "RANGE", To(m, "range_in_name", "range", ""))
      [] m.state = "range_in_name" ->
            IF token.type = "INTER_RANGE"
            THEN To(m, "in_inter_range", "inter_range", "")
            ELSE Expect(token, "SUFFIXES",
                        To(m, "in_suffixes", "suffixes", ""))
      [] m.state = "in_inter_range" ->
            Expect(token, "RANGE", To(m, "range_in_name", "range", ""))
      [] OTHER -> Raised("TransitionNotAllowed")

\* _SeqParser.pump(token) of the strict parser
StrictPump(m, token) == Enter(m, StrictTransition(m, token), token, TRUE)

\* Ranges(ranges, inter_ranges) and its __post_init__
Ranges(ranges, inter_ranges) ==
    IF Len(inter_ranges) # Len(ranges) - 1
    THEN Raised("ValueError")
    ELSE [exc |-> "none", ranges |-> ranges, inter_ranges |-> inter_ranges]

\* ParsedSequence(stem=, prefix=, ranges=Ranges(...), suffixes=): the
\* strict AST, holding the ranges and the inter-range separators of its
\* Ranges.
ParsedSequence(stem, prefix, ranges, suffixes) ==
    [exc |-> "none", type |-> "ParsedSequence", stem |-> stem,
     prefix |-> prefix, ranges |-> ranges.ranges,
     inter_ranges |-> ranges.inter_ranges, suffixes |-> suffixes]

\* _SeqParser.finalise() and on_finalise of the strict parser
StrictFinalise(m) ==
    LET ranges == Ranges(m.ranges, m.inter_ranges)
    IN  IF m.state # "in_suffixes" THEN Raised("TransitionNotAllowed")
        ELSE IF ~IsOk(ranges) THEN ranges
        ELSE ParsedSequence(m.stem, m.prefix, ranges, m.suffixes)

\* The loop of parse over the tokens: an exception ends it.
RECURSIVE StrictPumpAll(_, _)
StrictPumpAll(m, tokens) ==
    IF tokens = <<>> \/ m.exc # "none" THEN m
    ELSE StrictPumpAll(StrictPump(m, Head(tokens)), Tail(tokens))

\* parse_path_sequence(seq) of the strict parser
ParseStrictSeq(seq) ==
    LET Finalised(m) == IF m.exc # "none" THEN Raised(m.exc)
                        ELSE StrictFinalise(m)
        tokens == TokeniseSeq(seq)
    IN  IF ~IsOk(tokens) THEN tokens
        ELSE Finalised(StrictPumpAll(Machine, tokens.tokens))

\* The transitions of pump of the loose parser
LooseTransition(m, token) ==
    CASE m.state = "init" ->
            IF token.type = "RANGE"
            THEN To(m, "range_starts_name", "range", "RangesStartName")
            ELSE Expect(token, "STEM", To(m, "range_later", "stem", ""))
      [] m.state = "range_starts_name" ->
            IF token.type = "INTER_RANGE"
            THEN To(m, "starts_inter_range", "inter_range", "")
            ELSE IF token.type = "RANGE"
            THEN To(m, "range_starts_name", "range", "RangesStartName")
            ELSE IF token.type = "SUFFIXES"
            THEN To(m, "in_suffixes", "suffixes", "RangesInName")
            ELSE IF token.type = "POSTFIX"
            THEN To(m, "starts_postfix", "postfix", "")
            ELSE Expect(token, "STEM", To(m, "starts_stem", "stem", ""))
      [] m.state = "starts_inter_range" ->
            Expect(token, "RANGE",
                   To(m, "range_starts_name", "range", "RangesStartName"))
      [] m.state = "starts_postfix" ->
            Expect(token, "STEM", To(m, "starts_stem", "stem", ""))
      [] m.state = "starts_stem" ->
            Expect(token, "SUFFIXES",
                   To(m, "starts_suffixes", "suffixes", ""))
      [] m.state = "range_later" ->
            IF token.type = "PREFIX"
            THEN To(m, "in_prefix", "prefix", "")
            ELSE IF token.type = "RANGE"
            THEN To(m, "range_in_name", "range", "RangesInName")
            ELSE Expect(token, "SUFFIXES",
                        To(m, "range_ends_name", "suffixes", "RangesEndName"))
      [] m.state = "in_prefix" ->
            Expect(token, "RANGE",
                   To(m, "range_in_name", "range", "RangesInName"))
      [] m.state = "range_in_name" ->
            IF token.type = "INTER_RANGE"
            THEN To(m, "in_inter_range", "inter_range", "")
            ELSE IF token.type = "POSTFIX"
            THEN To(m, "in_postfix", "postfix", "")
            ELSE Expect(token, "SUFFIXES",
                        To(m, "in_suffixes", "suffixes", ""))
      [] m.state = "in_inter_range" ->
            Expect(token, "RANGE",
                   To(m, "range_in_name", "range", "RangesInName"))
      [] m.state = "in_postfix" ->
            Expect(token, "SUFFIXES", To(m, "in_suffixes", "suffixes", ""))
      [] m.state = "range_ends_name" ->
            IF token.type = "PREFIX"
            THEN To(m, "ends_prefix", "prefix", "")
            ELSE Expect(token, "RANGE", To(m, "ends_range", "range", ""))
      [] m.state = "ends_prefix" ->
            Expect(token, "RANGE", To(m, "ends_range", "range", ""))
      [] m.state = "ends_range" ->
            Expect(token, "INTER_RANGE",
                   To(m, "ends_inter_range", "inter_range", ""))
      [] m.state = "ends_inter_range" ->
            Expect(token, "RANGE", To(m, "ends_range", "range", ""))
      [] OTHER -> Raised("TransitionNotAllowed")

\* SeqParser.pump(token) of the loose parser.  The transition from
\* range_starts_name to itself on a range first records an empty
\* inter-range separator.
LoosePump(m, token) ==
    Enter(IF m.state = "range_starts_name" /\ token.type = "RANGE"
          THEN [m EXCEPT !.inter_ranges = Append(@, <<>>)]
          ELSE m,
          LooseTransition(m, token), token, FALSE)

\* The states finalise leaves from.
FinaliseSources ==
    {"range_starts_name", "starts_stem", "starts_suffixes", "range_in_name",
     "in_postfix", "in_suffixes", "ends_range"}

\* RangesStartName(...), RangesInName(...) or RangesEndName(...)
LooseSequence(range_type, stem, prefix, ranges, inter_ranges, postfix, suffixes) ==
    [exc |-> "none", type |-> range_type, stem |-> stem, prefix |-> prefix,
     ranges |-> ranges, inter_ranges |-> inter_ranges, postfix |-> postfix,
     suffixes |-> suffixes]

\* SeqParser.finalise() and on_finalise(source) of the loose parser
LooseFinalise(m) ==
    LET range_type == IF m.state = "range_starts_name"
                      THEN "RangesInName"
                      ELSE m.range_type
    IN  IF m.state \notin FinaliseSources
        THEN Raised("TransitionNotAllowed")
        ELSE IF \/ range_type = "None"
                \/ (range_type = "RangesStartName" /\ m.prefix # <<>>)
                \/ (range_type = "RangesEndName" /\ m.postfix # <<>>)
        THEN Raised("AssertionError")
        ELSE LooseSequence(range_type, m.stem, m.prefix, m.ranges,
                           m.inter_ranges, m.postfix, m.suffixes)

RECURSIVE LoosePumpAll(_, _)
LoosePumpAll(m, tokens) ==
    IF tokens = <<>> \/ m.exc # "none" THEN m
    ELSE LoosePumpAll(LoosePump(m, Head(tokens)), Tail(tokens))

\* parse_path_sequence(seq) of the loose parser
ParseLooseSeq(seq) ==
    LET Finalised(m) == IF m.exc # "none" THEN Raised(m.exc)
                        ELSE LooseFinalise(m)
        tokens == Tokenise(seq)
    IN  IF ~IsOk(tokens) THEN tokens
        ELSE Finalised(LoosePumpAll(Machine, tokens.tokens))

(***************************************************************************)
(* Strings of numbers.  The file numbers of the names of the model are     *)
(* ints.                                                                   *)
(***************************************************************************)
\* str(n) for n >= 0
RECURSIVE StrOfNat(_)
StrOfNat(n) ==
    IF n < 10 THEN <<DigitChars[n + 1]>>
    ELSE StrOfNat(n \div 10) \o <<DigitChars[(n % 10) + 1]>>

\* str(n) for an int
StrOfInt(n) == IF n < 0 THEN <<"-">> \o StrOfNat(-n) ELSE StrOfNat(n)

Zeros(k) == [i \in 1 .. k |-> "0"]

\* s.zfill(width): zeros go after a leading sign.
ZFill(s, width) ==
    IF Len(s) >= width THEN s
    ELSE IF StartsWith(s, "-") \/ StartsWith(s, "+")
    THEN <<Head(s)>> \o Zeros(width - Len(s)) \o Tail(s)
    ELSE Zeros(width - Len(s)) \o s

\* The characters of a number text of a whole number.
CharsOfText(text) == StrOfInt(text.n \div Unit)

\* The characters of one range of a range string: "a", "a-b" or "a-bxc".
CharsOfArgs(args) ==
    CharsOfText(args[1])
    \o (IF Len(args) >= 2 THEN <<"-">> \o CharsOfText(args[2]) ELSE <<>>)
    \o (IF Len(args) = 3 THEN <<"x">> \o CharsOfText(args[3]) ELSE <<>>)

\* ",".join(ranges)
RECURSIVE JoinArgs(_)
JoinArgs(seq) ==
    IF seq = <<>> THEN <<>>
    ELSE IF Len(seq) = 1 THEN CharsOfArgs(seq[1])
    ELSE CharsOfArgs(seq[1]) \o <<",">> \o JoinArgs(Tail(seq))

\* PaddedRange.__str__: str(self.file_nums) + self.pad_format
PaddedRangeStr(r) == JoinArgs(FileNumSequenceStr(r.file_nums)) \o r.pad_format

\* A value given in place of a file number: an int or None.
Num(n) == [none |-> FALSE, n |-> n]

None == [none |-> TRUE, n |-> 0]

\* pad(number, width) of an int or None: str(number), zero-filled.
Pad(number, width) ==
    ZFill(IF number.none THEN <<"N", "o", "n", "e">> ELSE StrOfInt(number.n),
          width)

\* 10 ** k
RECURSIVE Pow10(_)
Pow10(k) == IF k = 0 THEN 1 ELSE 10 * Pow10(k - 1)

\* A Decimal given in place of a file number: the finite number
\* (-1)^sign * int * 10^exp, a record made by Dec with a whole exponent.
DecNum(d) == [none |-> FALSE, n |-> 0, dec |-> d]

\* decimal.Decimal(number) of pad: a Decimal is kept, an int is converted.
AsDecimal(number) ==
    IF "dec" \in DOMAIN number THEN number.dec
    ELSE Dec(IF number.n < 0 THEN 1 ELSE 0,
             IF number.n < 0 THEN -number.n ELSE number.n, 0)

\* quantize(number, decimal_places, ROUND_HALF_EVEN): Decimal.quantize to
\* the exponent -decimal_places (the digits below it are dropped and the
\* coefficient goes up when they are more than half a unit, or exactly half
\* a unit with an odd coefficient), the sign being kept; a result that is
\* zero is returned by copy_abs.
Quantize(number, decimal_places) ==
    LET shift == (-decimal_places) - number.exp
        Rounded(q, r, unit) ==
            IF (2 * r > unit) \/ (2 * r = unit /\ q % 2 = 1)
            THEN q + 1 ELSE q
        Result(int) == Dec(IF int = 0 THEN 0 ELSE number.sign, int,
                           -decimal_places)
    IN  Result(IF shift <= 0 THEN number.int * Pow10(-shift)
               ELSE Rounded(number.int \div Pow10(shift),
                            number.int % Pow10(shift), Pow10(shift)))

\* str(d) of a finite Decimal with exp <= 0, its to-scientific-string:
\* plain digits while the adjusted exponent is at least -6, otherwise the
\* coefficient with one digit before the point and "E-" and the exponent.
DecimalStr(d) ==
    LET Text(digits, adjusted) ==
            IF adjusted >= -6
            THEN IF d.exp = 0 THEN digits
                 ELSE IF Len(digits) > -d.exp
                 THEN Take(digits, Len(digits) + d.exp) \o <<".">>
                      \o Drop(digits, Len(digits) + d.exp)
                 ELSE <<"0", ".">> \o Zeros((-d.exp) - Len(digits))
                      \o digits
            ELSE <<Head(digits)>>
                 \o (IF Len(digits) > 1 THEN <<".">> \o Tail(digits)
                     ELSE <<>>)
                 \o <<"E", "-">> \o StrOfNat(-adjusted)
        Signed(digits) ==
            (IF d.sign = 1 THEN <<"-">> ELSE <<>>)
            \o Text(digits, d.exp + Len(digits) - 1)
    IN  Signed(StrOfNat(d.int))

\* pad(number, width, decimal_places) for decimal_places > 0: Decimal(number)
\* is quantized to that many places; its string is split at the first ".",
\* the part before it is zero-filled and the parts are joined again.
\* Decimal(None) is a TypeError.
PadDecimal(number, width, decimal_places) ==
    LET Joined(text, dot) ==
            IF dot = Len(text) THEN ZFill(text, width)
            ELSE ZFill(Take(text, dot), width) \o Drop(text, dot)
        Padded(text) == Joined(text, IndexOfDot(text, 0))
    IN  IF number.none
        THEN Raised("TypeError")
        ELSE [exc |-> "none",
              value |-> Padded(DecimalStr(Quantize(AsDecimal(number),
                                                   decimal_places)))]

\* PaddedRange.format(number)
PaddedRangeFormat(r, number) ==
    LET pad_format == IF r.pad_format = UDIM
                      THEN <<"#", "#", "#", "#">>
                      ELSE r.pad_format
        head == IndexOfDot(pad_format, 0)
    IN  IF r.pad_format = UVTILE THEN Raised("NotImplementedError")
        ELSE IF head < Len(pad_format)
        THEN PadDecimal(number, head, Len(pad_format) - head - 1)
        ELSE [exc |-> "none", value |-> Pad(number, Len(pad_format))]

\* "".join(suffixes), and any other join of strings
Concat(strings) == Flatten(strings)

(***************************************************************************)
(* The operations of the ASTs.                                             *)
(***************************************************************************)
\* splice_numbers_onto_ranges: the count of numbers is checked first; then
\* each range is formatted with its number, or written as it is for None,
\* and the results are joined with the inter-range strings.
SpliceNumbersOntoRanges(numbers, ranges, inter_ranges) ==
    LET to_splice == [i \in 1 .. Len(ranges) |->
                        IF numbers[i].none
                        THEN [exc |-> "none", value |-> PaddedRangeStr(ranges[i])]
                        ELSE PaddedRangeFormat(ranges[i], numbers[i])]
        bad == {i \in 1 .. Len(ranges) : ~IsOk(to_splice[i])}
    IN  IF Len(numbers) # Len(ranges) THEN Raised("TypeError")
        ELSE IF Len(inter_ranges) # Len(ranges) - 1
        THEN Raised("AssertionError")
        ELSE IF bad # {}
        THEN Raised(to_splice[CHOOSE i \in bad : \A j \in bad : i <= j].exc)
        ELSE [exc |-> "none",
              value |-> Flatten([i \in 1 .. Len(ranges) |->
                            to_splice[i].value
                            \o (IF i < Len(ranges) THEN inter_ranges[i]
                                ELSE <<>>)])]

\* ast.format(numbers...): the fields around the spliced ranges, in the
\* order of the AST's type.
AstFormat(ast, numbers) ==
    LET spliced == SpliceNumbersOntoRanges(numbers, ast.ranges,
                                           ast.inter_ranges)
        suffixes == Concat(ast.suffixes)
    IN  IF ~IsOk(spliced) THEN spliced
        ELSE [exc |-> "none",
              value |->
                CASE ast.type = "ParsedSequence" ->
                        ast.stem \o ast.prefix \o spliced.value \o suffixes
                  [] ast.type = "RangesStartName" ->
                        spliced.value \o ast.postfix \o ast.stem \o suffixes
                  [] ast.type = "RangesInName" ->
                        ast.stem \o ast.prefix \o spliced.value
                        \o ast.postfix \o suffixes
                  [] ast.type = "RangesEndName" ->
                        ast.stem \o suffixes \o ast.prefix \o spliced.value]

\* with_stem whose RangesStartName keeps the postfix of a removed stem
WithStemMutant(ast, stem) ==
    CASE ast.type \in {"ParsedSequence", "RangesInName"} ->
            IF stem = <<>> /\ ast.stem # <<>>
            THEN [ast EXCEPT !.stem = stem, !.prefix = <<>>]
            ELSE [ast EXCEPT !.stem = stem]
      [] OTHER -> [ast EXCEPT !.stem = stem]

\* ast.with_stem(stem)
WithStem(ast, stem) ==
    CASE ast.type \in {"ParsedSequence", "RangesInName"} ->
            IF stem = <<>> /\ ast.stem # <<>>
            THEN [ast EXCEPT !.stem = stem, !.prefix = <<>>]
            ELSE [ast EXCEPT !.stem = stem]
      [] ast.type = "RangesStartName" ->
            IF stem = <<>>
            THEN [ast EXCEPT !.stem = stem, !.postfix = <<>>]
            ELSE [ast EXCEPT !.stem = stem]
      [] ast.type = "RangesEndName" -> [ast EXCEPT !.stem = stem]

\* s.split("."): the texts between the dots.
RECURSIVE SplitDots(_)
SplitDots(s) ==
    LET i == IndexOfDot(s, 0)
    IN  IF i = Len(s) THEN <<s>>
        ELSE <<Take(s, i)>> \o SplitDots(Drop(s, i + 1))

\* tuple(f".{s}" for s in suffix.split(".")[1:]), which for a suffix that
\* starts with "." is also what suffix[1:].split(".") gives.
AddSuffixes(suffix) ==
    LET parts == Tail(SplitDots(suffix))
    IN  [i \in 1 .. Len(parts) |-> <<".">> \o parts[i]]

\* ast.with_suffix(suffix)
WithSuffix(ast, suffix) ==
    IF suffix # <<>>
    THEN IF \/ ~StartsWith(suffix, ".")
            \/ (ast.type = "RangesStartName" /\ suffix = <<".">>)
         THEN Raised("ValueError")
         ELSE [ast EXCEPT !.suffixes = Front(@) \o AddSuffixes(suffix)]
    ELSE IF ast.type = "ParsedSequence" \/ ast.suffixes # <<>>
    THEN IF ast.type = "RangesInName" /\ Front(ast.suffixes) = <<>>
         THEN [ast EXCEPT !.suffixes = Front(@), !.postfix = <<>>]
         ELSE [ast EXCEPT !.suffixes = Front(@)]
    ELSE ast

\* stringify_parsed_sequence(seq): the fields in the order the class of the
\* AST declares them; the ranges are zipped with the inter-range separators
\* and one more empty string.
AstStr(ast) ==
    LET n == IF Len(ast.ranges) <= Len(ast.inter_ranges) + 1
             THEN Len(ast.ranges) ELSE Len(ast.inter_ranges) + 1
        Joined(ranges, suffixes) ==
            CASE ast.type = "ParsedSequence" ->
                    ast.stem \o ast.prefix \o ranges \o suffixes
              [] ast.type = "RangesStartName" ->
                    ast.prefix \o ranges \o ast.postfix \o ast.stem
                    \o suffixes
              [] ast.type = "RangesInName" ->
                    ast.stem \o ast.prefix \o ranges \o ast.postfix
                    \o suffixes
              [] ast.type = "RangesEndName" ->
                    ast.stem \o suffixes \o ast.prefix \o ranges
                    \o ast.postfix
    IN  Joined(Flatten([i \in 1 .. n |->
                    PaddedRangeStr(ast.ranges[i])
                    \o (IF i <= Len(ast.inter_ranges)
                        THEN ast.inter_ranges[i] ELSE <<>>)]),
               Concat(ast.suffixes))

\* LoosePurePathSequence.with_suffix(suffix): an empty suffix is refused;
\* otherwise the AST's with_suffix, then the path sequence of the string of
\* the new AST, a ParseError from parsing it becoming a ValueError.
LoosePathWithSuffix(ast, suffix) ==
    LET Reparsed(new) ==
            IF new.exc \in {"ParseError", "NotASequenceError"}
            THEN Raised("ValueError") ELSE new
        parsed == WithSuffix(ast, suffix)
    IN  IF suffix = <<>> THEN Raised("ValueError")
        ELSE IF ~IsOk(parsed) THEN parsed
        ELSE Reparsed(ParseLooseSeq(AstStr(parsed)))

(***************************************************************************)
(* FileNumberFormatter(numbers...).format(seq) on a strict AST.  The       *)
(* fields are rendered in order: stem, prefix, ranges, suffixes.  Each     *)
(* range takes the next number as the ranges are spliced, so the ranges    *)
(* before a missing number have been formatted when the TypeError is       *)
(* raised, and numbers that are left over are not looked at.               *)
(***************************************************************************)
\* FileNumberFormatter.range for the ranges from the i-th on: the strings
\* made so far (done), and the exception that ended the formatting.
RECURSIVE FormatterRanges(_, _, _, _)
FormatterRanges(numbers, ranges, i, done) ==
    IF i > Len(ranges) THEN [exc |-> "none", strings |-> done]
    ELSE IF i > Len(numbers) THEN [exc |-> "TypeError", strings |-> done]
    ELSE LET s == PaddedRangeFormat(ranges[i], numbers[i])
         IN  IF IsOk(s)
             THEN FormatterRanges(numbers, ranges, i + 1, Append(done, s.value))
             ELSE [exc |-> s.exc, strings |-> done]

\* Formatter.format, Formatter.ranges and _splice_strings_onto_ranges:
\* formatted is the number of ranges that were formatted.
FileNumberFormatterFormat(numbers, ast) ==
    LET strs == FormatterRanges(numbers, ast.ranges, 1, <<>>)
    IN  IF ~IsOk(strs)
        THEN [exc |-> strs.exc, formatted |-> Len(strs.strings)]
        ELSE [exc |-> "none", formatted |-> Len(strs.strings),
              value |-> ast.stem \o ast.prefix
                        \o Flatten([i \in 1 .. Len(ast.ranges) |->
                              strs.strings[i]
                              \o (IF i < Len(ast.ranges)
                                  THEN ast.inter_ranges[i] ELSE <<>>)])
                        \o Concat(ast.suffixes)]

(***************************************************************************)
(* Path sequences.  A path sequence is the AST of its name; the directory  *)
(* of the path plays no part in what is modelled.                          *)
(***************************************************************************)
\* file_num_seqs and the pools itertools.product builds: each range's file
\* numbers, as its iterator yields them.
Pools(ast) ==
    [i \in 1 .. Len(ast.ranges) |-> IterRanges(ast.ranges[i].file_nums.ranges)]

\* len(x.file_nums): the sum of the lengths of the ranges.
RECURSIVE SumOfLens(_)
SumOfLens(ranges) ==
    IF ranges = <<>> THEN 0 ELSE ASLen(Head(ranges)) + SumOfLens(Tail(ranges))

\* The product of a sequence of numbers.
RECURSIVE Product(_)
Product(ns) == IF ns = <<>> THEN 1 ELSE Head(ns) * Product(Tail(ns))

\* __len__ of a path sequence
PathSeqLen(ast) ==
    Product([i \in 1 .. Len(ast.ranges) |->
                SumOfLens(ast.ranges[i].file_nums.ranges)])

\* The k-th tuple (from 0) of itertools.product(pools...): the last pool
\* varies fastest.
RECURSIVE ProductAt(_, _)
ProductAt(pools, k) ==
    IF pools = <<>> THEN <<>>
    ELSE LET n == Len(Last(pools))
         IN  Append(ProductAt(Front(pools), k \div n), Last(pools)[(k % n) + 1])

(***************************************************************************)
(* The names given to the parsers: every string of at most MaxChars        *)
(* characters of a small alphabet, the names built from a head, a part     *)
(* with the ranges and a tail, and the names the documentation and the     *)
(* tests use.  No name writes a file number with a decimal point.          *)
(***************************************************************************)
MaxChars == 4      \* longest name made of any characters of the alphabet
MaxEdits == 2      \* with_stem and with_suffix calls made on one AST
MaxArgs == 3       \* most numbers given to one format call

Alphabet == {"a", ".", "_", "#", "1"}

ShortNames == UNION {[1 .. k -> Alphabet] : k \in 0 .. MaxChars}

Heads ==
    {<<>>, <<"a">>, <<"a", ".">>, <<"a", "_">>, <<"a", ".", "a">>,
     <<"a", ".", "a", ".">>, <<"a", ".", "a", "_">>, <<".", "a", ".", "a", ".">>}

Mids ==
    {<<"#">>, <<"2", "#">>, <<"1", "-", "3", "#">>, <<"5", ",", "5", "#">>,
     <<"#", "_", "#">>, <<"1", "-", "2", "#", "_", "5", "-", "6", "#", "#">>,
     <<"8", "-", "9">> \o UDIM, <<"1", "0", "0", "1">> \o UVTILE,
     <<"1", "-", "1", "x", "0", "#">>, <<"0", "1", "#">>,
     <<"1", "-", "2", "#", ".", "#">>, <<"#", ".", "3", "#">>,
     <<"-", "1", "-", "1", "#", "#">> \o UDIM}

Tails ==
    {<<>>, <<".", "a">>, <<".", "a", ".", "a">>, <<"a">>,
     <<"_", "a", ".", "a">>, <<".">>, <<"_">>, <<".", ".", "a">>,
     <<"a", ".">>}

BuiltNames == {h \o m \o t : h \in Heads, m \in Mids, t \in Tails}

File == <<"f", "i", "l", "e">>

Exr == <<".", "e", "x", "r">>

OneToTen == <<"1", "-", "1", "0">>

DocumentedNames ==
    {File, <<"d", "i", "r">>, File \o Exr, <<".">> \o File \o Exr,
     <<".">> \o File, File \o <<".", "1">> \o Exr,
     File \o <<".", "#">> \o Exr, File \o <<".", "#", ".", "#">>,
     File \o <<"_", "#">>,
     OneToTen \o <<"#", ".">> \o File \o Exr, <<"#", ".">> \o File \o Exr,
     OneToTen \o <<"x", "2", "#", ".">> \o File \o Exr,
     File \o Exr \o <<".">> \o OneToTen \o <<"x", "2", "#">>,
     File \o Exr \o <<".", "#">>,
     File \o <<".", "5", ",", "5", "#">> \o Exr}

\* A name whose range holds the tiles 1001 .. 1012: the ten tiles of the
\* first row and two of the second.
TileNames ==
    {<<"a", ".", "1", "0", "0", "1", "-", "1", "0", "1", "2">> \o UVTILE
     \o <<".", "a">>}

\* A file number written with a decimal point: digit, ".", digit.
HasDecimal(s) ==
    \E i \in 1 .. (Len(s) - 2) :
        IsDigit(s[i]) /\ s[i + 1] = "." /\ IsDigit(s[i + 2])

Names ==
    {s \in ShortNames \cup BuiltNames \cup DocumentedNames \cup TileNames :
        ~HasDecimal(s)}

\* The stems and suffixes given to with_stem and with_suffix, and the
\* numbers given to format.
NewStems == {<<>>, <<"b">>}

NewSuffixes == {<<>>, <<".", "b">>, <<".", "b", ".", "c">>, <<"b">>, <<".">>}

NumberLists == UNION {[1 .. k -> {Num(7), None}] : k \in 0 .. MaxArgs}

(***************************************************************************)
(* The state machine of the parsers and of what is done with an AST: a     *)
(* caller parses a name with the strict or the loose parser; on the AST    *)
(* it edits the stem or the suffix, formats it with numbers, or, as a path *)
(* sequence does, takes its length or iterates its paths.                  *)
(***************************************************************************)
\* parse_path_sequence(seq) of _parse_path_sequence
ParseStrict ==
    /\ pc = "start"
    /\ \E seq \in Names :
        /\ call' = [fn |-> "strict", seq |-> seq]
        /\ obj' = ParseStrictSeq(seq)
        /\ pc' = IF IsOk(obj') THEN "parsed" ELSE "raised"
        /\ UNCHANGED <<it, out, res>>

\* parse_path_sequence(seq) of _parse_loose_path_sequence
ParseLoose ==
    /\ pc = "start"
    /\ \E seq \in Names :
        /\ call' = [fn |-> "loose", seq |-> seq]
        /\ obj' = ParseLooseSeq(seq)
        /\ pc' = IF IsOk(obj') THEN "parsed" ELSE "raised"
        /\ UNCHANGED <<it, out, res>>

\* obj = obj.with_stem(stem)
AstWithStem ==
    /\ pc \in {"parsed", "edited"}
    /\ Len(out) < MaxEdits
    /\ \E stem \in NewStems :
        /\ obj' = WithStem(obj, stem)
        /\ out' = Append(out, "with_stem")
        /\ pc' = "edited"
        /\ UNCHANGED <<call, it, res>>

\* obj = obj.with_suffix(suffix)
AstWithSuffix ==
    /\ pc \in {"parsed", "edited"}
    /\ Len(out) < MaxEdits
    /\ \E suffix \in NewSuffixes :
        /\ obj' = WithSuffix(obj, suffix)
        /\ out' = Append(out, "with_suffix")
        /\ pc' = IF IsOk(obj') THEN "edited" ELSE "edit_raised"
        /\ UNCHANGED <<call, it, res>>

\* obj.format(*numbers)
Format ==
    /\ pc = "parsed"
    /\ \E numbers \in NumberLists :
        /\ res' = [op |-> "format", numbers |-> numbers,
                   result |-> AstFormat(obj, numbers)]
        /\ pc' = "formatted"
        /\ UNCHANGED <<call, obj, it, out>>

\* FileNumberFormatter(*numbers).format(obj), for a strict AST
FormatterFormat ==
    /\ pc = "parsed"
    /\ obj.type = "ParsedSequence"
    /\ \E numbers \in NumberLists :
        /\ res' = [op |-> "FileNumberFormatter", numbers |-> numbers,
                   result |-> FileNumberFormatterFormat(numbers, obj)]
        /\ pc' = "formatted"
        /\ UNCHANGED <<call, obj, it, out>>

\* len(seq) of the path sequence of the name
PathLen ==
    /\ pc = "parsed"
    /\ res' = [op |-> "len", value |-> PathSeqLen(obj)]
    /\ pc' = "measured"
    /\ UNCHANGED <<call, obj, it, out>>

\* iter(seq) of the path sequence of the name
PathIter ==
    /\ pc = "parsed"
    /\ it' = [ri |-> 0, current |-> 0, live |-> TRUE]
    /\ pc' = "listing"
    /\ UNCHANGED <<call, obj, out, res>>

\* next() on the iterator of the path sequence: the next tuple of the
\* product is formatted, or the iterator stops.
PathNext ==
    /\ pc = "listing"
    /\ LET pools == Pools(obj)
           total == Product([i \in 1 .. Len(pools) |-> Len(pools[i])])
           result == ProductAt(pools, it.current)
           path == AstFormat(obj, [i \in 1 .. Len(result) |-> Num(result[i])])
       IN  IF it.current >= total
           THEN /\ pc' = "listed"
                /\ it' = [it EXCEPT !.live = FALSE]
                /\ UNCHANGED <<out, res>>
           ELSE IF IsOk(path)
           THEN /\ out' = Append(out, path.value)
                /\ it' = [it EXCEPT !.current = @ + 1]
                /\ UNCHANGED <<pc, res>>
           ELSE /\ res' = [op |-> "next", result |-> path]
                /\ pc' = "listing_raised"
                /\ it' = [it EXCEPT !.live = FALSE]
                /\ UNCHANGED out
    /\ UNCHANGED <<call, obj>>

\* seq.with_suffix(suffix) of the loose path sequence of the name
PathWithSuffix ==
    /\ pc = "parsed"
    /\ call.fn = "loose"
    /\ \E suffix \in NewSuffixes :
        /\ res' = [op |-> "with_suffix", suffix |-> suffix,
                   result |-> LoosePathWithSuffix(obj, suffix)]
        /\ pc' = "renamed"
        /\ UNCHANGED <<call, obj, it, out>>

NextPath ==
    \/ ParseStrict
    \/ ParseLoose
    \/ AstWithStem
    \/ AstWithSuffix
    \/ Format
    \/ FormatterFormat
    \/ PathLen
    \/ PathIter
    \/ PathNext
    \/ PathWithSuffix

SpecPath == Init /\ [][NextPath]_vars

(***************************************************************************)
(* The state machine of formatting one number: a caller makes a            *)
(* PaddedRange whose pad format is a run of "#", a "." and a second run,   *)
(* and formats a Decimal or an int with it.                                *)
(***************************************************************************)
MaxCoef == 15      \* coefficients of the Decimals are 0 .. MaxCoef
MaxExp == 3        \* exponents of the Decimals are -MaxExp .. 0
MaxHead == 3       \* longest run of "#" before the "."
MaxTail == 7       \* longest run of "#" after the "."

Hashes(k) == [i \in 1 .. k |-> "#"]

Decimals ==
    {Dec(sign, int, -e) : sign \in {0, 1}, int \in 0 .. MaxCoef,
                          e \in 0 .. MaxExp}

PadFormats ==
    {Hashes(head) \o <<".">> \o Hashes(tail) :
        head \in 1 .. MaxHead, tail \in {1, 2, MaxTail}}

\* PaddedRange(file_nums, pad_format).format(number) of a Decimal
FormatDecimal ==
    /\ pc = "start"
    /\ \E pad_format \in PadFormats, d \in Decimals :
        /\ obj' = [exc |-> "none", pad_format |-> pad_format]
        /\ call' = [fn |-> "PaddedRange.format", number |-> d]
        /\ res' = [op |-> "format",
                   result |-> PaddedRangeFormat(obj', DecNum(d))]
        /\ pc' = "padded"
        /\ UNCHANGED <<it, out>>

\* PaddedRange(file_nums, pad_format).format(number) of an int
FormatInt ==
    /\ pc = "start"
    /\ \E pad_format \in PadFormats, n \in (-MaxCoef) .. MaxCoef :
        /\ obj' = [exc |-> "none", pad_format |-> pad_format]
        /\ call' = [fn |-> "PaddedRange.format", number |-> AsDecimal(Num(n))]
        /\ res' = [op |-> "format",
                   result |-> PaddedRangeFormat(obj', Num(n))]
        /\ pc' = "padded"
        /\ UNCHANGED <<it, out>>

NextPad ==
    \/ FormatDecimal
    \/ FormatInt

SpecPad == Init /\ [][NextPad]_vars

(***************************************************************************)
(* The regular expression and the glob of an AST.  A regular expression    *)
(* is the record of what it matches: the pattern of a range is a tile      *)
(* pattern, or a whole part of at least head digits and a fraction of at   *)
(* least tail digits; the pattern of an AST is the sequence of its         *)
(* escaped texts and its named groups.  A glob is its string.              *)
(***************************************************************************)
\* PaddedRange.as_regex().  A pad format without "." asks has_subsamples,
\* which names FileNumSequence: the module imports it for type checking
\* only, so the lookup raises NameError.
PaddedRangeAsRegex(r) ==
    LET pad_format == IF r.pad_format = UDIM THEN Hashes(4) ELSE r.pad_format
        head == IndexOfDot(pad_format, 0)
    IN  IF r.pad_format = UVTILE
        THEN [exc |-> "none", tile |-> TRUE, head |-> 0, tail |-> 0]
        ELSE IF head < Len(pad_format)
        THEN [exc |-> "none", tile |-> FALSE, head |-> head,
              tail |-> Len(pad_format) - head - 1]
        ELSE Raised("NameError")

\* re.fullmatch of the pattern of one range: u\d+_v\d+ for a tile, and
\* otherwise (positive_re|negative_re) followed by \.[0-9]*[0-9]{tail}.
RangeFullMatch(regex, text) ==
    LET Digits(s) == \A k \in 1 .. Len(s) : IsDigit(s[k])
        \* ([1-9][0-9]*)?[0-9]{n}
        Number(s, n) ==
            Digits(s) /\ Len(s) >= n /\ (Len(s) > n => s[1] # "0")
        Whole(s) == IF StartsWith(s, "-")
                    THEN Number(Tail(s), regex.head - 1)
                    ELSE Number(s, regex.head)
        dot == IndexOfDot(text, 0)
        under == {k \in 1 .. Len(text) : text[k] = "_"}
        Tile(k) == /\ StartsWith(text, "u")
                   /\ k > 2 /\ Digits(SubSeq(text, 2, k - 1))
                   /\ k + 1 < Len(text) /\ text[k + 1] = "v"
                   /\ Digits(SubSeq(text, k + 2, Len(text)))
    IN  IF regex.tile
        THEN \E k \in under : Tile(k)
        ELSE /\ dot < Len(text)
             /\ Whole(Take(text, dot))
             /\ Digits(Drop(text, dot + 1))
             /\ Len(text) - dot - 1 >= regex.tail

\* splice_strings_onto_ranges(strings, inter_ranges) on any strings
SpliceStringsOntoRanges(strings, inter_ranges) ==
    IF Len(inter_ranges) # Len(strings) - 1
    THEN Raised("AssertionError")
    ELSE [exc |-> "none",
          value |-> Flatten([i \in 1 .. Len(strings) |->
                        strings[i]
                        \o (IF i < Len(strings) THEN inter_ranges[i]
                            ELSE <<>>)])]

\* re.escape(text) as a part of a pattern: it matches the text itself.
Escaped(text) == [group |-> FALSE, text |-> text, name |-> 0,
                  regex |-> [exc |-> "none", tile |-> FALSE,
                             head |-> 0, tail |-> 0]]

\* (?P<range{name}>regex) as a part of a pattern
Group(name, regex) == [group |-> TRUE, text |-> <<>>, name |-> name,
                       regex |-> regex]

\* ast.as_regex(): the patterns of the ranges are made first, in order,
\* then spliced with the escaped inter-range strings and put between the
\* escaped texts of the AST's type.
AstAsRegex(ast) ==
    LET n == Len(ast.ranges)
        to_splice == [i \in 1 .. n |-> PaddedRangeAsRegex(ast.ranges[i])]
        bad == {i \in 1 .. n : ~IsOk(to_splice[i])}
        spliced == SpliceStringsOntoRanges(
                       [i \in 1 .. n |-> <<Group(i - 1, to_splice[i])>>],
                       [i \in 1 .. Len(ast.inter_ranges) |->
                           <<Escaped(ast.inter_ranges[i])>>])
        suffixes == Concat(ast.suffixes)
    IN  IF bad # {}
        THEN Raised(to_splice[CHOOSE i \in bad : \A j \in bad : i <= j].exc)
        ELSE IF ~IsOk(spliced) THEN spliced
        ELSE [exc |-> "none",
              parts |->
                CASE ast.type = "ParsedSequence" ->
                        <<Escaped(ast.stem \o ast.prefix)>> \o spliced.value
                        \o <<Escaped(suffixes)>>
                  [] ast.type = "RangesStartName" ->
                        spliced.value
                        \o <<Escaped(ast.postfix \o ast.stem \o suffixes)>>
                  [] ast.type = "RangesInName" ->
                        <<Escaped(ast.stem \o ast.prefix)>> \o spliced.value
                        \o <<Escaped(ast.postfix \o suffixes)>>
                  [] ast.type = "RangesEndName" ->
                        <<Escaped(ast.stem \o suffixes \o ast.prefix)>>
                        \o spliced.value]

\* ast.as_glob(): a "*" for each range
AstAsGlob(ast) ==
    LET spliced == SpliceStringsOntoRanges(
                       [i \in 1 .. Len(ast.ranges) |-> <<"*">>],
                       ast.inter_ranges)
        suffixes == Concat(ast.suffixes)
    IN  IF ~IsOk(spliced) THEN spliced
        ELSE [exc |-> "none",
              value |->
                CASE ast.type = "ParsedSequence" ->
                        ast.stem \o ast.prefix \o spliced.value \o suffixes
                  [] ast.type = "RangesStartName" ->
                        spliced.value \o ast.postfix \o ast.stem \o suffixes
                  [] ast.type = "RangesInName" ->
                        ast.stem \o ast.prefix \o spliced.value
                        \o ast.postfix \o suffixes
                  [] ast.type = "RangesEndName" ->
                        ast.stem \o suffixes \o ast.prefix \o spliced.value]

\* pattern.fullmatch(text): None (ok is FALSE), or the texts of the
\* groups.  The quantifiers of a range's pattern are greedy and its whole
\* part ends at the first ".", so the match re finds gives each group, from
\* the left, the longest text that lets the rest of the pattern match.
RECURSIVE FullMatch(_, _)
FullMatch(parts, text) ==
    LET part == Head(parts)
        Rest(k) == FullMatch(Tail(parts), Drop(text, k))
        lens == {k \in 0 .. Len(text) :
                    RangeFullMatch(part.regex, Take(text, k)) /\ Rest(k).ok}
        Longest(k) == [ok |-> TRUE,
                       groups |-> <<Take(text, k)>> \o Rest(k).groups]
    IN  IF parts = <<>> THEN [ok |-> text = <<>>, groups |-> <<>>]
        ELSE IF ~part.group
        THEN IF Len(text) >= Len(part.text)
                /\ Take(text, Len(part.text)) = part.text
             THEN Rest(Len(part.text))
             ELSE [ok |-> FALSE, groups |-> <<>>]
        ELSE IF lens = {} THEN [ok |-> FALSE, groups |-> <<>>]
        ELSE Longest(CHOOSE k \in lens : \A j \in lens : j <= k)

\* Whether a name matches a glob of texts and "*": what Path.glob yields
\* of a directory of plain files.
RECURSIVE GlobMatch(_, _)
GlobMatch(glob, name) ==
    IF glob = <<>> THEN name = <<>>
    ELSE IF Head(glob) = "*"
    THEN \E k \in 0 .. Len(name) : GlobMatch(Tail(glob), Drop(name, k))
    ELSE /\ name # <<>>
         /\ Head(name) = Head(glob)
         /\ GlobMatch(Tail(glob), Tail(name))

(***************************************************************************)
(* find_on_disk.  A directory is the set of the names of its files.        *)
(***************************************************************************)
\* int(text): the text is an optional sign and digits
IsIntText(text) ==
    LET digits == IF StartsWith(text, "-") THEN Tail(text) ELSE text
    IN  digits # <<>> /\ \A k \in 1 .. Len(digits) : IsDigit(digits[k])

IntOfText(text) ==
    IF StartsWith(text, "-") THEN -IntOfDigits(Tail(text))
    ELSE IntOfDigits(text)

\* Decimal(text) in units, for a text with a ".": whole part and fraction
DecimalOf(text) ==
    LET dot == IndexOfDot(text, 0)
        whole == Take(text, dot)
        fraction == Drop(text, dot + 1)
        units == IntOfDigits(IF StartsWith(whole, "-") THEN Tail(whole)
                             ELSE whole) * Unit
                 + (IntOfDigits(fraction) * Unit) \div Pow10(Len(fraction))
    IN  IF StartsWith(whole, "-") THEN -units ELSE units

\* sorted(...) of the numbers a function gives to the texts of a set
RECURSIVE Sorted(_)
Sorted(number) ==
    LET texts == DOMAIN number
        Least(t) == <<number[t]>>
                    \o Sorted([u \in texts \ {t} |-> number[u]])
    IN  IF texts = {} THEN <<>>
        ELSE Least(CHOOSE t \in texts : \A u \in texts : number[t] <= number[u])

\* find_on_disk(path, parsed) on the names of the directory of path: the
\* ranges found, or the exception raised.
FindOnDisk(names, parsed) ==
    LET num_ranges == Len(parsed.ranges)
        glob == AstAsGlob(parsed)
        HasPoint(file_str) == \E k \in 1 .. Len(file_str) : file_str[k] = "."
        FileNumSeq(file_str_set) ==
            IF \E file_str \in file_str_set : HasPoint(file_str)
            THEN FromFileNums("dec", Sorted([s \in file_str_set |->
                                                DecimalOf(s)]))
            ELSE IF \E file_str \in file_str_set : ~IsIntText(file_str)
            THEN Raised("ValueError")
            ELSE FromFileNums("int", Sorted([s \in file_str_set |->
                                                IntOfText(s)]))
        Returned(file_num_seqs) ==
            LET bad == {i \in 1 .. num_ranges : ~IsOk(file_num_seqs[i])}
            IN  IF bad # {}
                THEN Raised(file_num_seqs[CHOOSE i \in bad :
                                             \A j \in bad : i <= j].exc)
                ELSE [exc |-> "none",
                      ranges |-> [i \in 1 .. num_ranges |->
                          [exc |-> "none", file_nums |-> file_num_seqs[i],
                           pad_format |-> parsed.ranges[i].pad_format]]]
        Counted(found, file_str_sets) ==
            IF Cardinality(found)
               # Product([i \in 1 .. num_ranges |->
                             Cardinality(file_str_sets[i])])
            THEN Raised("IncompleteDimensionError")
            ELSE Returned([i \in 1 .. num_ranges |->
                              FileNumSeq(file_str_sets[i])])
        Scanned(pattern, paths) ==
            LET found == {name \in paths : FullMatch(pattern.parts, name).ok}
            IN  Counted(found,
                        [i \in 1 .. num_ranges |->
                            {FullMatch(pattern.parts, name).groups[i] :
                                name \in found}])
        Compiled(pattern) ==
            IF ~IsOk(pattern) THEN pattern
            ELSE Scanned(pattern,
                         {name \in names : GlobMatch(glob.value, name)})
    IN  IF ~IsOk(glob) THEN glob ELSE Compiled(AstAsRegex(parsed))

(***************************************************************************)
(* The state machine of reconciling a sequence with a directory: a caller  *)
(* parses the name of a sequence in an empty directory, files are made in  *)
(* the directory, and find_on_disk is called.                              *)
(***************************************************************************)
MaxFiles == 4      \* most files of a directory

A == <<"a", ".">>

DotA == <<".", "a">>

OneTwo == <<"1", "-", "2">>

\* Names of sequences of one and two ranges, of every kind of pad format.
DiskPatterns ==
    {A \o OneTwo \o <<"#">> \o DotA,
     A \o OneTwo \o <<"#", ".", "#">> \o DotA,
     A \o OneTwo \o <<"#", ".", "#", "_">> \o OneTwo \o <<"#", ".", "#">>
       \o DotA,
     A \o <<"1", "0", "0", "1">> \o UVTILE \o DotA,
     A \o <<"1", "0", "0", "1">> \o UDIM \o DotA}

\* The texts written where the names of the files have their numbers.
FileNumbers == {<<"1", ".", "0">>, <<"2", ".", "0">>, <<"2", ".", "0", "0">>}

OtherFileNumbers == {<<"1">>, <<"-", ".", "5">>, <<"u", "1", "_", "v", "1">>}

\* The names a file of the directory can have.
FileNames ==
    {A \o n \o DotA : n \in FileNumbers \cup OtherFileNumbers}
    \cup {A \o n \o <<"_">> \o m \o DotA : n, m \in FileNumbers}

\* parsed = parse_path_sequence(path.name), with either parser, for a path
\* of a new directory
ParsePath ==
    /\ pc = "start"
    /\ \E seq \in DiskPatterns, fn \in {"strict", "loose"} :
        /\ call' = [fn |-> fn, seq |-> seq]
        /\ obj' = IF fn = "strict" THEN ParseStrictSeq(seq)
                  ELSE ParseLooseSeq(seq)
        /\ out' = {}
        /\ pc' = IF IsOk(obj') THEN "on_disk" ELSE "raised"
        /\ UNCHANGED <<it, res>>

\* (path.parent / name).touch()
Touch ==
    /\ pc = "on_disk"
    /\ Cardinality(out) < MaxFiles
    /\ \E name \in FileNames \ out :
        /\ out' = out \cup {name}
        /\ UNCHANGED <<pc, call, obj, it, res>>

\* find_on_disk(path, parsed)
PathFindOnDisk ==
    /\ pc = "on_disk"
    /\ res' = [op |-> "find_on_disk", result |-> FindOnDisk(out, obj)]
    /\ pc' = "found"
    /\ UNCHANGED <<call, obj, it, out>>

NextDisk ==
    \/ ParsePath
    \/ Touch
    \/ PathFindOnDisk

SpecDisk == Init /\ [][NextDisk]_vars

(***************************************************************************)
(* Indexing a path sequence.                                               *)
(***************************************************************************)
\* ArithmeticSequence.__getitem__(index) for an int
ASGetItem(a, index) ==
    IF index > ASLen(a) THEN Raised("IndexError")
    ELSE [exc |-> "none", value |-> a.start + index * a.step]

\* FileNumSequence.__getitem__(index) for an int: the ranges are passed
\* over while the index is not below their length.
RECURSIVE FileNumGetItem(_, _)
FileNumGetItem(ranges, index) ==
    IF ranges = <<>> THEN Raised("IndexError")
    ELSE IF index < ASLen(Head(ranges)) THEN ASGetItem(Head(ranges), index)
    ELSE FileNumGetItem(Tail(ranges), index - ASLen(Head(ranges)))

\* The loop of __getitem__ over reversed(file_num_seqs), given their
\* lengths: indexes, and what is left of start.
RECURSIVE IndexesLoop(_, _)
IndexesLoop(lens, start) ==
    LET next_idx == start % Last(lens)
        Before(rest) == [indexes |-> Append(rest.indexes, next_idx),
                         start |-> rest.start]
    IN  IF lens = <<>> THEN [indexes |-> <<>>, start |-> start]
        ELSE Before(IndexesLoop(Front(lens), start - next_idx))

\* seq[index] of a path sequence for an int; loose tells the class:
\* LoosePurePathSequence refuses ranges without file numbers first, and the
\* base class an empty sequence.
PathGetItem(ast, index, loose) ==
    LET n == Len(ast.ranges)
        lens == [i \in 1 .. n |-> SumOfLens(ast.ranges[i].file_nums.ranges)]
        length == Product(lens)
        start == IF index < 0 THEN index + length ELSE index
        Formatted(file_nums) ==
            LET bad == {i \in 1 .. n : ~IsOk(file_nums[i])}
            IN  IF bad # {}
                THEN Raised(file_nums[CHOOSE i \in bad :
                                         \A j \in bad : i <= j].exc)
                ELSE AstFormat(ast, [i \in 1 .. n |-> Num(file_nums[i].value)])
        Looped(loop) ==
            IF loop.start # 0 THEN Raised("AssertionError")
            ELSE Formatted([i \in 1 .. n |->
                     FileNumGetItem(ast.ranges[i].file_nums.ranges,
                                    loop.indexes[n + 1 - i])])
    IN  IF loose /\ \E i \in 1 .. n : lens[i] = 0 THEN Raised("ValueError")
        ELSE IF ~loose /\ length = 0 THEN Raised("IndexError")
        ELSE IF start < 0 \/ (index >= 0 /\ start > length)
        THEN Raised("IndexError")
        ELSE Looped(IndexesLoop(lens, start))

(***************************************************************************)
(* Membership of a path sequence.                                          *)
(***************************************************************************)
\* item in seq, for a path of the sequence's path type, given its name
PathContains(ast, name) ==
    LET n == Len(ast.ranges)
        Within(i, group) ==
            LET ranges == ast.ranges[i].file_nums.ranges
                file_nums == UNION {Range(Elements(ranges[k])) :
                                        k \in 1 .. Len(ranges)}
                has_subsamples == SumOfLens(ranges) # 0
                                  /\ Head(ranges).cls = "dec"
            IN  IF has_subsamples
                THEN IF \E k \in 1 .. Len(group) : ~IsDigit(group[k])
                                                  /\ group[k] \notin {"-", "."}
                     THEN Raised("InvalidOperation")
                     ELSE [exc |-> "none", value |-> DecimalOf(group) \in file_nums]
                ELSE IF ~IsIntText(group) THEN Raised("ValueError")
                ELSE [exc |-> "none", value |-> IntOfText(group) \in file_nums]
        Matched(match) ==
            LET within == [i \in 1 .. n |-> Within(i, match.groups[i])]
                stops == {i \in 1 .. n : ~IsOk(within[i]) \/ ~within[i].value}
            IN  IF ~match.ok THEN [exc |-> "none", value |-> FALSE]
                ELSE IF stops = {} THEN [exc |-> "none", value |-> TRUE]
                ELSE within[CHOOSE i \in stops : \A j \in stops : i <= j]
        Compiled(pattern) ==
            IF ~IsOk(pattern) THEN pattern
            ELSE Matched(FullMatch(pattern.parts, name))
    IN  Compiled(AstAsRegex(ast))

(***************************************************************************)
(* The state machine of a pure path sequence: a caller makes a             *)
(* PurePathSequence (strict) or a LoosePurePathSequence (loose) of a name  *)
(* and indexes it, asks whether a path is in it, or parses its string.     *)
(***************************************************************************)
MaxIndex == 7      \* indexes are drawn from -MaxIndex .. MaxIndex

OneThree == <<"1", "-", "3">>

\* Names of sequences of one and two ranges, of every kind of pad format,
\* with a range of negative numbers, with a range without numbers, and
\* with ranges whose step is not one, of one number and of two.
SeqNames ==
    {A \o OneThree \o <<"#">> \o DotA,
     A \o <<"#">> \o DotA,
     A \o <<"-", "1", "-", "1", "#", "#">> \o DotA,
     A \o OneTwo \o <<"#", "_">> \o OneThree \o <<"#">> \o DotA,
     A \o OneThree \o <<"#", "_">> \o OneTwo \o <<"#", "#">> \o DotA,
     A \o OneTwo \o <<"#", ".", "#">> \o DotA,
     A \o OneTwo \o <<"#", ".", "#", "_">> \o OneThree \o <<"#", "#", ".", "#">>
       \o DotA,
     A \o <<"1", "0", "0", "1", "-", "1", "0", "0", "2">> \o UDIM \o DotA,
     A \o <<"1", "0", "0", "1", "-", "1", "0", "0", "2">> \o UVTILE \o DotA,
     A \o <<"1", "-", "1", "x", "2", "#">> \o DotA,
     A \o <<"1", "-", "4", "x", "2", "#">> \o DotA}

\* PurePathSequence(name) or LoosePurePathSequence(name)
NewPathSequence ==
    /\ pc = "start"
    /\ \E seq \in SeqNames, fn \in {"strict", "loose"} :
        /\ call' = [fn |-> fn, seq |-> seq]
        /\ obj' = IF fn = "strict" THEN ParseStrictSeq(seq)
                  ELSE ParseLooseSeq(seq)
        /\ pc' = IF IsOk(obj') THEN "sequence" ELSE "raised"
        /\ UNCHANGED <<it, out, res>>

\* seq[index]
GetItem ==
    /\ pc = "sequence"
    /\ \E index \in (-MaxIndex) .. MaxIndex :
        /\ res' = [op |-> "getitem", index |-> index,
                   result |-> PathGetItem(obj, index, call.fn = "loose")]
        /\ pc' = "indexed"
        /\ UNCHANGED <<call, obj, it, out>>

\* The paths iterating the sequence yields, in order; each is the path or
\* the exception format gives for the k-th tuple of the product.
Iterated(ast) ==
    [k \in 1 .. PathSeqLen(ast) |->
        LET result == ProductAt(Pools(ast), k - 1)
        IN  AstFormat(ast, [i \in 1 .. Len(result) |-> Num(result[i])])]

\* The names of paths that are asked for besides those a sequence yields.
OtherItems == {A \o <<"9">> \o DotA, A \o <<"1", ".", "5">> \o DotA, <<"b">>}

\* The names of the paths iterating the sequence yields, up to the first
\* that raises.
RECURSIVE Yielded(_)
Yielded(paths) ==
    IF paths = <<>> \/ ~IsOk(Head(paths)) THEN {}
    ELSE {Head(paths).value} \cup Yielded(Tail(paths))

\* item in seq
Contains ==
    /\ pc = "sequence"
    /\ \E name \in OtherItems \cup Yielded(Iterated(obj)) :
        /\ res' = [op |-> "contains", item |-> name,
                   result |-> PathContains(obj, name)]
        /\ pc' = "asked"
        /\ UNCHANGED <<call, obj, it, out>>

\* parse_path_sequence(str(parsed)) with the parser of the sequence: what
\* with_name, with_stem and with_suffix do with the AST they made.
Reparse ==
    /\ pc = "sequence"
    /\ res' = [op |-> "parse", seq |-> AstStr(obj),
               result |-> IF call.fn = "strict"
                          THEN ParseStrictSeq(AstStr(obj))
                          ELSE ParseLooseSeq(AstStr(obj))]
    /\ pc' = "reparsed"
    /\ UNCHANGED <<call, obj, it, out>>

(***************************************************************************)
(* RegexFormatter and GlobFormatter.  A formatter is an object with a      *)
(* field of its own: _i, the number of the next capture group, or          *)
(* _ignore_next_range.  Formatter.format renders the fields of a strict    *)
(* AST in order (stem, prefix, ranges, suffixes); as the ranges are        *)
(* spliced, the inter-range string that follows a range is rendered        *)
(* before the range is.                                                    *)
(***************************************************************************)
MaxFormats == 3    \* one formatter formats at most MaxFormats times

\* RegexFormatter.range for the ranges from the k-th on: the groups made so
\* far (done) and _i.  _range asks has_subsamples for a pad format without
\* ".", which raises NameError before _i is incremented.
RECURSIVE RegexFormatterRanges(_, _, _, _)
RegexFormatterRanges(ranges, k, i, done) ==
    LET range_ == ranges[k]
        pad_format == IF range_.pad_format = UDIM THEN Hashes(4)
                      ELSE range_.pad_format
        head == IndexOfDot(pad_format, 0)
        _range ==
            IF range_.pad_format = UVTILE
            THEN [exc |-> "none", tile |-> TRUE, head |-> 0, tail |-> 0]
            ELSE IF head < Len(pad_format)
            THEN [exc |-> "none", tile |-> FALSE, head |-> head,
                  tail |-> Len(pad_format) - head - 1]
            ELSE Raised("NameError")
    IN  IF k > Len(ranges) THEN [exc |-> "none", strings |-> done, i |-> i]
        ELSE IF ~IsOk(_range)
        THEN [exc |-> _range.exc, strings |-> done, i |-> i]
        ELSE RegexFormatterRanges(ranges, k + 1, i + 1,
                                  Append(done, <<Group(i, _range)>>))

\* RegexFormatter().format(ast) of a formatter whose _i is i: the pattern,
\* or the exception, and the _i the formatter is left with.
RegexFormatterFormat(i, ast) ==
    LET strs == RegexFormatterRanges(ast.ranges, 1, i, <<>>)
        spliced == SpliceStringsOntoRanges(
                       strs.strings,
                       [k \in 1 .. Len(ast.inter_ranges) |->
                           <<Escaped(ast.inter_ranges[k])>>])
    IN  IF ~IsOk(strs) THEN [exc |-> strs.exc, i |-> strs.i]
        ELSE IF ~IsOk(spliced) THEN [exc |-> "TypeError", i |-> strs.i]
        ELSE [exc |-> "none", i |-> strs.i,
              parts |-> <<Escaped(ast.stem), Escaped(ast.prefix)>>
                        \o spliced.value
                        \o <<Escaped(Concat(ast.suffixes))>>]

\* GlobFormatter.inter_range and GlobFormatter.range for the ranges from
\* the k-th on: inter_range of the string after the k-th range sets
\* _ignore_next_range when the string is empty, and then range of the k-th
\* range clears it and returns "".
RECURSIVE GlobFormatterRanges(_, _, _, _, _)
GlobFormatterRanges(ranges, inter_ranges, k, ignore, done) ==
    LET set == IF k <= Len(inter_ranges) /\ inter_ranges[k] = <<>>
               THEN TRUE ELSE ignore
        string == IF set THEN <<>> ELSE <<"*">>
    IN  IF k > Len(ranges) THEN [strings |-> done, ignore |-> ignore]
        ELSE GlobFormatterRanges(ranges, inter_ranges, k + 1, FALSE,
                                 Append(done, string))

\* GlobFormatter().format(ast) of a formatter whose _ignore_next_range is
\* ignore: the glob and the flag the formatter is left with.
GlobFormatterFormat(ignore, ast) ==
    LET strs == GlobFormatterRanges(ast.ranges, ast.inter_ranges, 1,
                                    ignore, <<>>)
        spliced == SpliceStringsOntoRanges(strs.strings, ast.inter_ranges)
    IN  IF ~IsOk(spliced) THEN [exc |-> "TypeError", ignore |-> strs.ignore]
        ELSE [exc |-> "none", ignore |-> strs.ignore,
              value |-> ast.stem \o ast.prefix \o spliced.value
                        \o Concat(ast.suffixes)]

\* The ASTs a formatter is given: the AST of a strict sequence, and that
\* AST with the ranges put next to each other (empty inter-range strings).
Formatted(ast) ==
    {ast, [ast EXCEPT !.inter_ranges =
                          [k \in 1 .. Len(ast.inter_ranges) |-> <<>>]]}

\* RegexFormatter() or GlobFormatter()
NewFormatter ==
    /\ pc = "sequence"
    /\ call.fn = "strict"
    /\ \E cls \in {"RegexFormatter", "GlobFormatter"}, ast \in Formatted(obj) :
        it' = [cls |-> cls, i |-> 0, ignore |-> FALSE, seq |-> ast]
    /\ out' = <<>>
    /\ pc' = "formatter"
    /\ UNCHANGED <<call, obj, res>>

\* formatter.format(ast), again and again with the same formatter
FormatAgain ==
    /\ pc = "formatter"
    /\ Len(out) < MaxFormats
    /\ LET Formats(result) ==
               /\ out' = Append(out, [r \in DOMAIN result \ {"i", "ignore"}
                                         |-> result[r]])
               /\ it' = IF it.cls = "RegexFormatter"
                        THEN [it EXCEPT !.i = result.i]
                        ELSE [it EXCEPT !.ignore = result.ignore]
       IN  Formats(IF it.cls = "RegexFormatter"
                   THEN RegexFormatterFormat(it.i, it.seq)
                   ELSE GlobFormatterFormat(it.ignore, it.seq))
    /\ UNCHANGED <<pc, call, obj, res>>

NextSeq ==
    \/ NewPathSequence
    \/ GetItem
    \/ Contains
    \/ Reparse
    \/ NewFormatter
    \/ FormatAgain

SpecSeq == Init /\ [][NextSeq]_vars

(***************************************************************************)
(* Properties of the parsers.                                              *)
(***************************************************************************)
\* The name has no pad-format marker: no "#", no <UDIM> and no <UVTILE>.
NoRangeToken(seq) ==
    \A i \in 1 .. Len(seq) :
        /\ seq[i] # "#"
        /\ ~StartsWithAt(seq, i, UDIM)
        /\ ~StartsWithAt(seq, i, UVTILE)

\* C11: a name with no range token makes the strict and the loose parser
\* raise NotASequenceError: neither returns a result or raises another
\* exception, whether the name has digits or ends with a ".".
C11_NoRangeTokenIsNotASequence ==
    (call.fn \in {"strict", "loose"} /\ NoRangeToken(call.seq))
        => (pc = "raised" /\ obj = Raised("NotASequenceError"))

\* The strict parser was given "a1.", digits and a final "." but no marker.
C11_Witness ==
    /\ pc = "raised"
    /\ call = [fn |-> "strict", seq |-> <<"a", "1", ".">>]
    /\ obj = Raised("NotASequenceError")

\* The ranges of the name do not sit between a stem and suffixes that
\* start with ".": the name starts or ends with a range token, the text
\* after its last range does not start with ".", or it ends with ".".
Misplaced(seq) ==
    \/ ReSplit(seq)[1] = <<>>
    \/ Last(ReSplit(seq)) = <<>>
    \/ ~StartsWith(Last(ReSplit(seq)), ".")
    \/ EndsWith(seq, ".")

IsSuffix(x) ==
    /\ Len(x) >= 2
    /\ x[1] = "."
    /\ \A k \in 2 .. Len(x) : x[k] # "."

RangeFirstNames ==
    {<<"#", ".">> \o File \o Exr,
     OneToTen \o <<"#", ".">> \o File \o Exr,
     OneToTen \o <<"x", "2", "#", ".">> \o File \o Exr}

\* C14: the loose parser makes of "#.file.exr", "1-10#.file.exr" and
\* "1-10x2#.file.exr" a RangesStartName with an empty prefix, one range
\* padded "#", the stem "file" and the suffixes (".exr").
C14_RangeFirstIsRangesStartName ==
    (call.fn = "loose" /\ call.seq \in RangeFirstNames /\ out = <<>>)
        => /\ IsOk(obj)
           /\ obj.type = "RangesStartName"
           /\ obj.prefix = <<>>
           /\ Len(obj.ranges) = 1
           /\ obj.ranges[1].pad_format = <<"#">>
           /\ obj.stem = File
           /\ obj.suffixes = <<Exr>>

\* The names made of the stem "a", the suffix ".a", a separator and ranges
\* that end the name, and the documented ones; the ranges are those of
\* Mids whose range strings the grammar of file numbers accepts with a
\* step that is not zero.
EndSeparators == {<<>>, <<".">>, <<"_">>}

EndRanges == Mids \ {<<"0", "1", "#">>, <<"1", "-", "1", "x", "0", "#">>}

\* C15: the loose parser makes of a name STEM SUFFIXES [separator] ranges,
\* whose ranges end the name after a stem and at least one suffix, a
\* RangesEndName with that stem, those suffixes, the separator as prefix
\* and an empty postfix.
C15_RangeLastIsRangesEndName ==
    /\ \A sep \in EndSeparators, m \in EndRanges :
            (call.fn = "loose" /\ out = <<>>
                /\ call.seq = <<"a", ".", "a">> \o sep \o m)
            => /\ IsOk(obj)
               /\ obj.type = "RangesEndName"
               /\ obj.stem = <<"a">>
               /\ obj.suffixes = << <<".", "a">> >>
               /\ obj.prefix = sep
               /\ obj.postfix = <<>>
               /\ Len(obj.ranges) >= 1
    /\ (call.fn = "loose" /\ out = <<>>
            /\ call.seq \in {File \o Exr \o <<".">> \o OneToTen \o <<"x", "2", "#">>,
                             File \o Exr \o <<".", "#">>})
            => /\ IsOk(obj)
               /\ obj.type = "RangesEndName"
               /\ obj.stem = File
               /\ obj.suffixes = <<Exr>>
               /\ obj.prefix = <<".">>
               /\ obj.postfix = <<>>

\* The classes of the ASTs each parser returns.
AstTypes(fn) ==
    IF fn = "strict" THEN {"ParsedSequence"}
    ELSE {"RangesStartName", "RangesInName", "RangesEndName"}

C17_FailuresAreParseErrors ==
    (call.fn \in {"strict", "loose"} /\ pc = "raised")
        => obj.exc \in {"ParseError", "NotASequenceError"}

(***************************************************************************)
(* Properties of formatting and of path sequences.                         *)
(***************************************************************************)
\* C18: formatting an AST with numbers, by its format method or by a
\* FileNumberFormatter, raises TypeError when the count of numbers is not
\* the count of ranges, be it lower or higher, before any range has been
\* formatted; with the right count, None in place of a number leaves the
\* range as it is written.
C18_FormatChecksTheCount ==
    pc = "formatted"
        => /\ Len(res.numbers) # Len(obj.ranges)
                => /\ res.result.exc = "TypeError"
                   /\ res.op = "FileNumberFormatter"
                          => res.result.formatted = 0
           /\ (obj.type = "ParsedSequence" /\ Len(obj.ranges) = 1
                    /\ res.numbers = <<None>>)
                => /\ IsOk(res.result)
                   /\ res.result.value
                          = obj.stem \o obj.prefix
                            \o PaddedRangeStr(obj.ranges[1])
                            \o Concat(obj.suffixes)

\* The file numbers of the k-th path (from 1) in row-major order: the
\* index into the i-th range's numbers steps once every product of the
\* lengths of the ranges after it.
RowMajor(pools, k) ==
    [i \in 1 .. Len(pools) |->
        pools[i][(((k - 1) \div Product([j \in 1 .. (Len(pools) - i) |->
                                            Len(pools[i + j])]))
                  % Len(pools[i])) + 1]]

\* C20: iterating a path sequence gives one path for each element of the
\* cartesian product of its ranges' file numbers, the first range
\* outermost and the last varying fastest, each number formatted with the
\* padding of its range; len(seq) is the product of the lengths of the
\* ranges and the number of paths iterated.
C20_IterIsRowMajorProduct ==
    /\ pc # "listing_raised"
    /\ pc = "measured"
            => res.value = Product([i \in 1 .. Len(obj.ranges) |->
                                      Len(Pools(obj)[i])])
    /\ pc = "listed"
            => /\ Len(out) = PathSeqLen(obj)
               /\ Len(out) = Product([i \in 1 .. Len(obj.ranges) |->
                                         Len(Pools(obj)[i])])
               /\ \A k \in 1 .. Len(out) :
                      out[k] = AstFormat(obj,
                                  [i \in 1 .. Len(obj.ranges) |->
                                      Num(RowMajor(Pools(obj), k)[i])]).value

(***************************************************************************)
(* Properties of the path sequences' edits, indexing and membership.       *)
(***************************************************************************)
\* The name of the AST with its last file suffix replaced by new, or removed
\* for an empty new; an AST without suffixes gains new.
NameWithSuffix(ast, new) ==
    AstStr([ast EXCEPT !.suffixes = Front(@) \o <<new>>])

\* C21: with_suffix(new) on a loose path sequence returns the sequence of
\* the name with its last file suffix replaced by new, or removed when new
\* is empty; ValueError is raised only when the suffix is invalid (it is
\* not empty and does not start with ".") or when the resulting name is not
\* a valid sequence.  The suffix "." may be taken either way.
C21_LooseWithSuffixReplacesLastSuffix ==
    (pc = "renamed" /\ res.op = "with_suffix") =>
        LET Holds(expected) ==
                IF (res.suffix = <<>> \/ StartsWith(res.suffix, "."))
                   /\ IsOk(expected)
                THEN \/ res.result = expected
                     \/ (res.suffix = <<".">>
                         /\ res.result = Raised("ValueError"))
                ELSE res.result = Raised("ValueError")
        IN  Holds(ParseLooseSeq(NameWithSuffix(obj, res.suffix)))

\* The separators of an AST: the prefix, and for the loose ASTs the postfix.
Separators(ast) ==
    IF ast.type = "ParsedSequence" THEN <<ast.prefix>>
    ELSE <<ast.prefix, ast.postfix>>

MaxTileRow == 1    \* rows v = 0 .. MaxTileRow of tiles are looked at

\* The text of the tile numbered 1000 + v*10 + (u+1): "u{u+1}_v{v+1}".
TileText(number) ==
    LET uv == CHOOSE uv \in (0 .. 9) \X (0 .. MaxTileRow) :
                    number = 1000 + (uv[2] * 10) + (uv[1] + 1)
    IN  <<"u">> \o StrOfNat(uv[1] + 1) \o <<"_", "v">> \o StrOfNat(uv[2] + 1)

\* C23: for the pad format <UVTILE>, format(1000 + v*10 + (u+1)) renders
\* "u{u+1}_v{v+1}": every path that iterating a sequence with one <UVTILE>
\* range has yielded is the name with the text of its tile in place of the
\* range, and the iteration raises nothing.
C23_UVTileFormatInvertsTileNumbering ==
    (/\ pc \in {"listing", "listed", "listing_raised"}
     /\ Len(obj.ranges) = 1
     /\ obj.ranges[1].pad_format = UVTILE
     /\ \A n \in Range(Pools(obj)[1]) :
            n \in 1001 .. (1010 + (MaxTileRow * 10))) =>
        /\ pc # "listing_raised"
        /\ \A k \in 1 .. Len(out) :
            \E i \in 0 .. Len(call.seq) :
                LET Filled(left, range, right) ==
                        /\ call.seq = left \o range \o right
                        /\ out[k] = left \o TileText(Pools(obj)[1][k])
                                    \o right
                IN  Filled(Take(call.seq, i), PaddedRangeStr(obj.ranges[1]),
                           Drop(call.seq,
                                i + Len(PaddedRangeStr(obj.ranges[1]))))

\* The number of units of 10^-places nearest to coefficient * 10^exp, the
\* even one of the two when the number is halfway between them.
NearestEven(d, places) ==
    LET scale == IF -d.exp > places THEN -d.exp ELSE places
        Nearest(n, unit) ==
            CHOOSE k \in {n \div unit, (n \div unit) + 1} :
                \A j \in {n \div unit, (n \div unit) + 1} :
                    LET dk == IF n >= k * unit THEN n - (k * unit)
                              ELSE (k * unit) - n
                        dj == IF n >= j * unit THEN n - (j * unit)
                              ELSE (j * unit) - n
                    IN  dk < dj \/ (dk = dj /\ (k % 2 = 0 \/ j = k))
    IN  Nearest(d.int * Pow10(scale + d.exp), Pow10(scale - places))

\* C24: for a pad format "head.tail", format(number) renders the number
\* quantized to len(tail) places, half to even: the integral part, with
\* its minus sign if the rounded number is not zero, zero-filled to
\* len(head) characters, then "." and exactly len(tail) fractional digits.
C24_FormatQuantizesHalfEven ==
    (pc = "padded" /\ res.op = "format") =>
        LET head == IndexOfDot(obj.pad_format, 0)
            tail == Len(obj.pad_format) - head - 1
            Rendered(k) ==
                ZFill((IF call.number.sign = 1 /\ k # 0 THEN <<"-">>
                       ELSE <<>>) \o StrOfNat(k \div Pow10(tail)), head)
                \o <<".">>
                \o Zeros(tail - Len(StrOfNat(k % Pow10(tail))))
                \o StrOfNat(k % Pow10(tail))
        IN  res.result = [exc |-> "none",
                          value |-> Rendered(NearestEven(call.number, tail))]


(***************************************************************************)
(* Properties of reconciling a sequence with a directory.                  *)
(***************************************************************************)
\* The number a file name writes for a range: the Decimal of a text with a
\* ".", the int of digits, and for any other text the text.
WrittenNumber(text) ==
    IF \E k \in 1 .. Len(text) : text[k] = "." THEN DecimalOf(text)
    ELSE IF IsIntText(text) THEN IntOfText(text) * Unit
    ELSE text

\* C25: find_on_disk raises IncompleteDimensionError or returns, and it
\* raises exactly when the number of the files that match the regex of the
\* sequence differs from the product, over the ranges, of the numbers of
\* distinct values the matching names write for the range; what it returns
\* is one range for each range of the sequence, in order, each with the pad
\* format of its range.
C25_FindOnDiskChecksTheGrid ==
    pc = "found" =>
        LET result == res.result
            pattern == AstAsRegex(obj)
            n == Len(obj.ranges)
            Grid(found) ==
                Product([i \in 1 .. n |->
                    Cardinality({WrittenNumber(
                                    FullMatch(pattern.parts, name).groups[i]) :
                                 name \in found})])
            Complete(found) == Cardinality(found) = Grid(found)
        IN  /\ result.exc \in {"none", "IncompleteDimensionError"}
            /\ IsOk(pattern) =>
                  (result.exc = "IncompleteDimensionError"
                   <=> ~Complete({name \in out :
                                    FullMatch(pattern.parts, name).ok}))
            /\ IsOk(result) =>
                  /\ Len(result.ranges) = n
                  /\ \A i \in 1 .. n :
                        result.ranges[i].pad_format = obj.ranges[i].pad_format


(***************************************************************************)
(* Properties of the tokens.                                               *)
(***************************************************************************)
\* C26: for every token the tokeniser of a parsed name emits, the text of
\* the name from the token's column on, as long as the token's value, is
\* the token's value; the tokens are in left-to-right order and no two
\* spans overlap.
C26_TokenColumnsAreExact ==
    (pc \in {"parsed", "raised"} /\ call.fn \in {"strict", "loose"}) =>
        LET seq == call.seq
            Spans(tokens, columns) ==
                /\ Len(columns) = Len(tokens)
                /\ \A k \in 1 .. Len(tokens) :
                      SubSeq(seq, columns[k] + 1,
                             columns[k] + Len(tokens[k].value))
                      = tokens[k].value
                /\ \A k \in 1 .. (Len(tokens) - 1) :
                      columns[k] + Len(tokens[k].value) <= columns[k + 1]
            Exact(tokenised, columns) ==
                IsOk(tokenised) => Spans(tokenised.tokens, columns)
        IN  IF call.fn = "strict"
            THEN Exact(TokeniseSeq(seq), ProcessTokensColumns(ReSplit(seq)))
            ELSE Exact(Tokenise(seq), TokeniseColumns(seq))


(***************************************************************************)
(* Properties of indexing and membership of a path sequence.               *)
(***************************************************************************)
\* C27: seq[i] is the i-th path of the iteration for 0 <= i < len(seq),
\* seq[-k] is seq[len(seq) - k] for 1 <= k <= len(seq), and any other
\* index raises IndexError.
C27_IndexingAgreesWithIteration ==
    pc = "indexed" =>
        LET paths == Iterated(obj)
            index == res.index
        IN  IF 0 <= index /\ index < Len(paths)
            THEN res.result = paths[index + 1]
            ELSE IF index < 0 /\ -index <= Len(paths)
            THEN res.result = paths[Len(paths) + index + 1]
            ELSE res.result.exc = "IndexError"


\* C28: every path iterating a sequence yields is in the sequence: asking
\* returns True and raises nothing.
C28_MembershipAgreesWithIteration ==
    (pc = "asked" /\ res.item \in Yielded(Iterated(obj))) =>
        res.result = [exc |-> "none", value |-> TRUE]


(***************************************************************************)
(* Properties of parsing the string of an AST again.                       *)
(***************************************************************************)
\* == of two ASTs: dataclass equality, field by field; two ranges are
\* equal when their pad formats are and their file numbers compare equal.
AstEq(a, b) ==
    /\ a.type = b.type
    /\ Len(a.ranges) = Len(b.ranges)
    /\ \A i \in 1 .. Len(a.ranges) :
          /\ a.ranges[i].pad_format = b.ranges[i].pad_format
          /\ FileNumSequenceEq(a.ranges[i].file_nums, b.ranges[i].file_nums)
    /\ [a EXCEPT !.ranges = <<>>] = [b EXCEPT !.ranges = <<>>]

\* C29: parsing the string of a parsed AST again, with the same parser,
\* succeeds and gives an AST equal to the first.
C29_ReparseIsStable ==
    pc = "reparsed" => IsOk(res.result) /\ AstEq(res.result, obj)


(***************************************************************************)
(* Properties of the regex and glob formatters.                            *)
(***************************************************************************)
\* The names of the capture groups of a pattern, in order
GroupNames(parts) ==
    LET groups == SelectSeq(parts, LAMBDA part : part.group)
    IN  [j \in 1 .. Len(groups) |-> groups[j].name]

\* The glob with one "*" for each range, but nothing for a range right
\* after an empty inter-range string.
StarForEachRange(ast) ==
    ast.stem \o ast.prefix
    \o Flatten([k \in 1 .. Len(ast.ranges) |->
           (IF k > 1 /\ ast.inter_ranges[k - 1] = <<>> THEN <<>> ELSE <<"*">>)
           \o (IF k < Len(ast.ranges) THEN ast.inter_ranges[k] ELSE <<>>)])
    \o Concat(ast.suffixes)

\* C30: formatting the same AST any number of times with the same
\* RegexFormatter or GlobFormatter returns the same string every time; each
\* RegexFormatter result names its capture groups range0 .. range{n-1} in
\* range order, and each GlobFormatter result has one "*" for each range
\* except that a range right after an empty inter-range string is rendered
\* as the empty string.
C30_FormattingIsPure ==
    pc = "formatter" =>
        \A k \in 1 .. Len(out) :
            /\ out[k] = out[1]
            /\ IsOk(out[k])
            /\ it.cls = "RegexFormatter" =>
                   GroupNames(out[k].parts)
                       = [j \in 1 .. Len(it.seq.ranges) |-> j - 1]
            /\ it.cls = "GlobFormatter" =>
                   out[k].value = StarForEachRange(it.seq)

====
